---- MODULE Spec2Model ----
(***************************************************************************)
(* Model of ChangelogStorage (src/cli/storage.py): the SQLite tables       *)
(* repositories, changelog_entries and versions, and the operations that   *)
(* write them.  Every operation is one action: it opens a connection, runs *)
(* its statements, and either commits or raises; a raise before the commit *)
(* leaves the tables as they were (the uncommitted transaction is rolled   *)
(* back when the connection is dropped).                                   *)
(*                                                                         *)
(* Nullable values: None is Python's None / SQL NULL, Some(x) a value.     *)
(***************************************************************************)
EXTENDS Integers, Sequences, FiniteSets, TLC

VARIABLES repositories, changelog_entries, versions, clock, uuid_counter, last,
          users, session, http, connections

vars == <<repositories, changelog_entries, versions, clock, uuid_counter, last,
          users, session, http, connections>>

\* the state of the web application besides the three changelog tables: the
\* users table, the session of the browser, the last request and its answer
web_vars == <<users, session, http>>

\* the state outside the store and the clock: the web application and the
\* storage connections that are open (every operation modelled as one step
\* has closed or dropped its connection when the step ends)
outer_vars == <<web_vars, connections>>

tables == <<repositories, changelog_entries, versions>>

None == <<>>

Some(x) == <<x>>

(***************************************************************************)
(* Bounds of the model.                                                    *)
(***************************************************************************)
\* datetime.now() is called at most until the clock reads MaxClock
MaxClock == 3

\* uuid.uuid4() is called at most MaxUuid times
MaxUuid == 3

\* largest pull request number used as input (0 is the smallest integer tried)
MaxPr == 1

(***************************************************************************)
(* Input domains.                                                          *)
(***************************************************************************)
RepoIds == {"acme-widgets", "acme-tools"}

\* (name, url, current_version) of an add_repository call: url and
\* current_version omitted, or both given
RepoArgs ==
    {<<"acme/widgets", None, None>>,
     <<"Acme Widgets", Some("https://github.com/acme/widgets"), Some("v0.9.0")>>}

\* (version, release_date, is_breaking) of an add_version call
VersionArgs ==
    {<<"v1.0.0", None, FALSE>>, <<"v1.0.0", Some(1), TRUE>>, <<"v1.1.0", Some(1), FALSE>>}

PrNumbers == {None} \cup {Some(n) : n \in 0..MaxPr}

EntryIds == 1..MaxUuid

\* the date argument of add_changelog_entry (differs from every entry date)
DateArgs == {9}

\* entry dictionaries: entry.get(k) is None for a missing key
Entry(pr, c) ==
    [pr_number |-> pr,
     pr_url    |-> IF pr = None THEN None ELSE Some(<<"pull", pr[1], c>>),
     author    |-> IF c = 2 THEN Some("bob") ELSE Some("alice"),
     date      |-> IF c = 4 THEN None ELSE Some(IF c = 2 THEN 2 ELSE 1),
     summary   |-> IF c = 3 THEN None
                   ELSE Some(IF c = 2 THEN "Fixed crash on startup" ELSE "Added dark mode"),
     details   |-> IF c = 2 THEN Some("") ELSE None,
     type      |-> IF c = 2 THEN Some("bugfix") ELSE Some("feature"),
     labels    |-> IF c = 1 THEN Some(<<"ui", "enhancement">>)
                   ELSE IF c = 2 THEN Some(<<>>) ELSE None]

\* contents c = 1 and 2 are complete entries, 3 lacks a summary, 4 lacks a date
Entries ==
    {Entry(pr, 1) : pr \in PrNumbers}
        \cup {Entry(Some(1), 2), Entry(None, 3), Entry(Some(1), 4)}

\* the entries update_changelog_entry is given: one with a pr_number, one
\* without, one without a summary
UpdateEntries == {Entry(Some(1), 2), Entry(None, 1), Entry(None, 3)}

\* the changes save_changelog is given: none, one, two with the same
\* pr_number, two equal ones without pr_number, and a list whose second
\* change lacks a summary
ChangeLists ==
    {<<>>,
     <<Entry(Some(1), 2)>>,
     <<Entry(Some(1), 1), Entry(Some(1), 2)>>,
     <<Entry(None, 1), Entry(None, 1)>>,
     <<Entry(Some(1), 1), Entry(None, 3)>>}

(***************************************************************************)
(* Python and SQL helpers.                                                 *)
(***************************************************************************)
\* truth value of an optional integer: None and 0 are falsy
truthy_int(x) == x # None /\ x[1] # 0

\* truth value of an optional list: None and [] are falsy
truthy_list(x) == x # None /\ x[1] # <<>>

\* truth value of an optional non-empty text
truthy_text(x) == x # None

RECURSIVE json_items(_)
json_items(L) ==
    IF L = <<>> THEN <<>>
    ELSE IF Len(L) = 1 THEN <<L[1]>>
    ELSE <<L[1], ",">> \o json_items(Tail(L))

\* the dump that leaves out the commas between the items
json_dumps_unseparated(L) == <<"[">> \o L \o <<"]">>

\* json.dumps of a list of strings, as the sequence of its tokens
json_dumps(L) == <<"[">> \o json_items(L) \o <<"]">>

\* no JSON value starts at the position
json_fail == [ok |-> FALSE, next |-> 0, value |-> <<>>]

RECURSIVE json_value(_, _)
RECURSIVE json_elements(_, _)
\* the JSON value that starts at token i of the text: a list, or a scalar
\* (one token that is no bracket and no comma), and where it ends
json_value(t, i) ==
    IF i > Len(t) THEN json_fail
    ELSE IF t[i] = "["
    THEN IF i + 1 <= Len(t) /\ t[i + 1] = "]"
         THEN [ok |-> TRUE, next |-> i + 2, value |-> <<>>]
         ELSE json_elements(t, i + 1)
    ELSE IF t[i] \in {"]", ","} THEN json_fail
    ELSE [ok |-> TRUE, next |-> i + 1, value |-> t[i]]

\* the elements of a list from token i up to its closing bracket
json_elements(t, i) ==
    LET v == json_value(t, i)
    IN  IF ~v.ok \/ v.next > Len(t) THEN json_fail
        ELSE IF t[v.next] = "]"
        THEN [ok |-> TRUE, next |-> v.next + 1, value |-> <<v.value>>]
        ELSE IF t[v.next] = ","
        THEN LET rest == json_elements(t, v.next + 1)
             IN  IF rest.ok
                 THEN [ok |-> TRUE, next |-> rest.next, value |-> <<v.value>> \o rest.value]
                 ELSE json_fail
        ELSE json_fail

\* json.loads of a text: Some(value), or None for json.JSONDecodeError (no
\* value at its start, or text left over after the value)
json_loads(t) ==
    LET v == json_value(t, 1)
    IN  IF v.ok /\ v.next = Len(t) + 1 THEN Some(v.value) ELSE None

\* the read that keeps the stored text when it cannot be decoded
read_labels_raw(stored) ==
    IF stored # None /\ stored[1] # <<>>
    THEN IF json_loads(stored[1]) = None THEN stored[1] ELSE json_loads(stored[1])[1]
    ELSE <<>>

\* the labels of a row as get_changelog returns them
read_labels(stored) ==
    IF stored # None /\ stored[1] # <<>>
    THEN IF json_loads(stored[1]) = None THEN <<>> ELSE json_loads(stored[1])[1]
    ELSE <<>>

\* labels_json = json.dumps(entry.get("labels", [])) if entry.get("labels") else None
labels_json(entry) ==
    IF truthy_list(entry.labels) THEN Some(json_dumps(entry.labels[1])) ELSE None

\* the lookup that finds nothing
select_repo_none(repo_id) == {}

\* the lookup without its WHERE clause
select_repo_any(repo_id) == repositories

\* SELECT id FROM repositories WHERE id = ?
select_repo(repo_id) == {r \in repositories : r.id = repo_id}

\* the UPDATE that leaves last_updated as it was
touch_repo_never(repos, repo_id, now) == repos

\* UPDATE repositories SET last_updated = ? WHERE id = ?
touch_repo(repos, repo_id, now) ==
    {IF r.id = repo_id THEN [r EXCEPT !.last_updated = Some(now)] ELSE r : r \in repos}

\* the row an entry dictionary is written as
entry_row(entry_id, repo_id, entry) ==
    [id        |-> entry_id,
     repo_id   |-> repo_id,
     pr_number |-> entry.pr_number,
     pr_url    |-> entry.pr_url,
     author    |-> entry.author,
     date      |-> entry.date,
     summary   |-> entry.summary,
     details   |-> entry.details,
     type      |-> entry.type,
     labels    |-> labels_json(entry)]

\* the constraints of a table whose date column may be null
entry_not_null_ok_summary_only(entry) == entry.summary # None

\* the NOT NULL constraints of changelog_entries (date, summary)
entry_not_null_ok(entry) == entry.date # None /\ entry.summary # None

\* raise ValueError(f"Repository '{repo_id}' not found")
RepositoryNotFound == "ValueError: repository not found"

\* raise ValueError(f"Entry '{entry_id}' not found for repository '{repo_id}'")
EntryNotFound == "ValueError: entry not found"

\* raise ValueError(f"Version '{version}' already exists for repository '{repo_id}'")
VersionExists == "ValueError: version already exists"

\* a NOT NULL constraint rejects the statement
IntegrityError == "sqlite3.IntegrityError"

\* what an operation leaves behind for its caller
Returned(op, args, result) ==
    last' = [op |-> op, args |-> args, error |-> "", result |-> result]

\* an exception before the commit: nothing is written (of a failed call only
\* the repository it named is kept)
Raised(op, args, error) ==
    /\ last' = [op |-> op, args |-> [repo_id |-> args.repo_id], error |-> error,
                result |-> None]
    /\ UNCHANGED <<repositories, changelog_entries, versions, clock, uuid_counter>>

\* a session without keys
NoSession == [access_token |-> None, user_id |-> None]

\* no request has been made
NoRequest ==
    [route |-> "", repo_id |-> None, entry_id |-> None, status |-> 0, json |-> FALSE,
     error |-> "", location |-> "", exception |-> ""]

Init ==
    /\ repositories = {}
    /\ changelog_entries = {}
    /\ versions = {}
    /\ clock = 1
    /\ uuid_counter = 1
    /\ last = [op |-> "init", args |-> [none |-> None], error |-> "", result |-> None]
    /\ users = {}
    /\ session = NoSession
    /\ http = NoRequest
    /\ connections = {}

(***************************************************************************)
(* add_repository                                                          *)
(***************************************************************************)
\* the UPDATE that keeps the stored current_version when none is given
update_repo_keep_version(repos, repo_id, name, url, current_version, now) ==
    {IF r.id = repo_id
     THEN [r EXCEPT !.name = name, !.url = url, !.last_updated = Some(now),
                    !.current_version = IF current_version = None THEN @
                                        ELSE current_version]
     ELSE r : r \in repos}

\* UPDATE repositories SET name = ?, url = ?, current_version = ?,
\* last_updated = ? WHERE id = ?
update_repo(repos, repo_id, name, url, current_version, now) ==
    {IF r.id = repo_id
     THEN [r EXCEPT !.name = name, !.url = url, !.current_version = current_version,
                    !.last_updated = Some(now)]
     ELSE r : r \in repos}

add_repository(repo_id, name, url, current_version) ==
    LET args == [repo_id |-> repo_id, name |-> name, url |-> url,
                 current_version |-> current_version]
        existing == select_repo(repo_id)
        row == [id |-> repo_id, name |-> name, url |-> url,
                current_version |-> current_version, last_updated |-> Some(clock)]
    IN  /\ clock <= MaxClock
        /\ IF existing # {}
             THEN repositories' = update_repo(repositories, repo_id, name, url,
                                              current_version, clock)
             ELSE repositories' = repositories \cup {row}
        /\ clock' = clock + 1
        /\ UNCHANGED <<changelog_entries, versions, uuid_counter>>
        /\ Returned("add_repository", args, None)

RECURSIVE order_by_last_updated_desc(_)
\* ORDER BY last_updated DESC (every row carries a distinct timestamp)
order_by_last_updated_desc(rows) ==
    IF rows = {} THEN <<>>
    ELSE LET first == CHOOSE r \in rows :
                          \A q \in rows : q.last_updated[1] <= r.last_updated[1]
         IN  <<first>> \o order_by_last_updated_desc(rows \ {first})

\* SELECT * FROM repositories ORDER BY last_updated DESC
get_repositories == order_by_last_updated_desc(repositories)

(***************************************************************************)
(* save_changelog                                                          *)
(***************************************************************************)
\* DELETE FROM changelog_entries WHERE repo_id = ?
delete_entries_of(entries, repo_id) == {e \in entries : e.repo_id # repo_id}

\* the loop that starts at the second change
inserted_rows_skip_first(repo_id, changes, first_uuid) ==
    {entry_row(first_uuid + i - 1, repo_id, changes[i]) : i \in 2..Len(changes)}

\* the rows the loop over changes inserts, the i-th with the i-th fresh uuid
inserted_rows(repo_id, changes, first_uuid) ==
    {entry_row(first_uuid + i - 1, repo_id, changes[i]) : i \in 1..Len(changes)}

save_changelog(repo_id, changes) ==
    LET args == [repo_id |-> repo_id, changes |-> changes]
    IN  \/ /\ \A i \in 1..Len(changes) : entry_not_null_ok(changes[i])
           /\ clock <= MaxClock
           /\ uuid_counter + Len(changes) <= MaxUuid + 1
           /\ repositories' = touch_repo(repositories, repo_id, clock)
           /\ changelog_entries' = delete_entries_of(changelog_entries, repo_id)
                                       \cup inserted_rows(repo_id, changes, uuid_counter)
           /\ clock' = clock + 1
           /\ uuid_counter' = uuid_counter + Len(changes)
           /\ UNCHANGED versions
           /\ Returned("save_changelog", args, None)
        \/ \* an INSERT violates NOT NULL: sqlite3.IntegrityError, no commit
           /\ \E i \in 1..Len(changes) : ~entry_not_null_ok(changes[i])
           /\ Raised("save_changelog", args, IntegrityError)

(***************************************************************************)
(* get_changelog                                                           *)
(***************************************************************************)
\* SELECT * FROM changelog_entries WHERE repo_id = ?
entries_of(repo_id) == {e \in changelog_entries : e.repo_id = repo_id}

\* the rows in ascending order of date
order_by_date_asc(rows) ==
    {s \in [1..Cardinality(rows) -> rows] :
        /\ \A i, j \in DOMAIN s : i # j => s[i] # s[j]
        /\ \A i, j \in DOMAIN s : i < j => s[i].date[1] <= s[j].date[1]}

\* ORDER BY date DESC: the arrangements of the rows in which no row comes
\* before a row of a later date (SQL leaves the order of equal dates open)
order_by_date_desc(rows) ==
    {s \in [1..Cardinality(rows) -> rows] :
        /\ \A i, j \in DOMAIN s : i # j => s[i] # s[j]
        /\ \A i, j \in DOMAIN s : i < j => s[i].date[1] >= s[j].date[1]}

\* the values get_changelog may return: None for an unknown repository, else
\* the entries of the repository in date order with their labels parsed
get_changelog(repo_id) ==
    IF select_repo(repo_id) = {} THEN {None}
    ELSE {Some([repo |-> repo_id,
                changes |-> [i \in DOMAIN s |->
                                [s[i] EXCEPT !.labels = read_labels(s[i].labels)]]]) :
             s \in order_by_date_desc(entries_of(repo_id))}

\* the labels of the row as get_changelog_entry returns them
read_labels_entry(stored) ==
    IF stored # None /\ stored[1] # <<>>
    THEN IF json_loads(stored[1]) = None THEN <<>> ELSE json_loads(stored[1])[1]
    ELSE <<>>

\* the values get_changelog_entry may return: None when no row has the
\* repo_id and the pr_number (a null pr_number matches no row), else any one
\* of the matching rows (fetchone) with its labels parsed
get_changelog_entry(repo_id, pr_number) ==
    LET found == {e \in changelog_entries :
                     /\ e.repo_id = repo_id
                     /\ pr_number # None
                     /\ e.pr_number = pr_number}
    IN  IF found = {} THEN {None}
        ELSE {Some([e EXCEPT !.labels = read_labels_entry(e.labels)]) : e \in found}

(***************************************************************************)
(* add_changelog_entry                                                     *)
(***************************************************************************)
\* the lookup run for every pr_number, a null one matching null rows
select_by_pr_null_matches(repo_id, pr_number) ==
    {e.id : e \in {x \in changelog_entries :
                     x.repo_id = repo_id /\ x.pr_number = pr_number}}

\* SELECT id FROM changelog_entries WHERE repo_id = ? AND pr_number = ?
\* run only under "if pr_number:"; fetchone() may return any matching row
select_by_pr(repo_id, pr_number) ==
    IF truthy_int(pr_number)
    THEN {e.id : e \in {x \in changelog_entries :
                          x.repo_id = repo_id /\ x.pr_number = pr_number}}
    ELSE {}

\* UPDATE changelog_entries SET pr_url, author, date, summary, details, type,
\* labels WHERE id = ?
update_by_pr(entries, existing_id, entry) ==
    {IF e.id = existing_id
     THEN [e EXCEPT !.pr_url = entry.pr_url, !.author = entry.author,
                    !.date = entry.date, !.summary = entry.summary,
                    !.details = entry.details, !.type = entry.type,
                    !.labels = labels_json(entry)]
     ELSE e : e \in entries}

add_changelog_entry(repo_id, date, entry) ==
    LET args == [repo_id |-> repo_id, date |-> date, entry |-> entry]
        found == select_by_pr(repo_id, entry.pr_number)
    IN  \/ /\ select_repo(repo_id) = {}
           /\ Raised("add_changelog_entry", args, RepositoryNotFound)
        \/ /\ select_repo(repo_id) # {}
           /\ ~entry_not_null_ok(entry)
           /\ Raised("add_changelog_entry", args, IntegrityError)
        \/ /\ select_repo(repo_id) # {}
           /\ entry_not_null_ok(entry)
           /\ found # {}
           /\ clock <= MaxClock
           /\ \E existing_id \in found :
                 /\ changelog_entries' = update_by_pr(changelog_entries, existing_id, entry)
                 /\ Returned("add_changelog_entry", args, Some(existing_id))
           /\ repositories' = touch_repo(repositories, repo_id, clock)
           /\ clock' = clock + 1
           /\ UNCHANGED <<versions, uuid_counter>>
        \/ /\ select_repo(repo_id) # {}
           /\ entry_not_null_ok(entry)
           /\ found = {}
           /\ clock <= MaxClock
           /\ uuid_counter <= MaxUuid
           /\ changelog_entries' = changelog_entries
                                       \cup {entry_row(uuid_counter, repo_id, entry)}
           /\ Returned("add_changelog_entry", args, Some(uuid_counter))
           /\ repositories' = touch_repo(repositories, repo_id, clock)
           /\ clock' = clock + 1
           /\ uuid_counter' = uuid_counter + 1
           /\ UNCHANGED versions

(***************************************************************************)
(* update_changelog_entry                                                  *)
(***************************************************************************)
\* SELECT id FROM changelog_entries WHERE id = ? AND repo_id = ?
select_entry(entry_id, repo_id) ==
    {e \in changelog_entries : e.id = entry_id /\ e.repo_id = repo_id}

\* the UPDATE without pr_number in its SET list
update_by_id_keep_pr_number(entries, entry_id, entry) ==
    {IF e.id = entry_id
     THEN [entry_row(e.id, e.repo_id, entry) EXCEPT !.pr_number = e.pr_number]
     ELSE e : e \in entries}

\* UPDATE changelog_entries SET pr_number, pr_url, author, date, summary,
\* details, type, labels WHERE id = ?
update_by_id(entries, entry_id, entry) ==
    {IF e.id = entry_id THEN entry_row(e.id, e.repo_id, entry) ELSE e : e \in entries}

update_changelog_entry(repo_id, entry_id, entry) ==
    LET args == [repo_id |-> repo_id, entry_id |-> entry_id, entry |-> entry]
    IN  \/ /\ select_entry(entry_id, repo_id) = {}
           /\ Raised("update_changelog_entry", args, EntryNotFound)
        \/ /\ select_entry(entry_id, repo_id) # {}
           /\ ~entry_not_null_ok(entry)
           /\ Raised("update_changelog_entry", args, IntegrityError)
        \/ /\ select_entry(entry_id, repo_id) # {}
           /\ entry_not_null_ok(entry)
           /\ clock <= MaxClock
           /\ repositories' = touch_repo(repositories, repo_id, clock)
           /\ changelog_entries' = update_by_id(changelog_entries, entry_id, entry)
           /\ clock' = clock + 1
           /\ UNCHANGED <<versions, uuid_counter>>
           /\ Returned("update_changelog_entry", args, None)

(***************************************************************************)
(* delete_repository                                                       *)
(***************************************************************************)
\* the cascade that leaves the versions
delete_versions_of_none(vs, repo_id) == vs

\* DELETE FROM versions WHERE repo_id = ?
delete_versions_of(vs, repo_id) == {v \in vs : v.repo_id # repo_id}

\* DELETE FROM repositories WHERE id = ?
delete_repo_row(repos, repo_id) == {r \in repos : r.id # repo_id}

delete_repository(repo_id) ==
    /\ versions' = delete_versions_of(versions, repo_id)
    /\ changelog_entries' = delete_entries_of(changelog_entries, repo_id)
    /\ repositories' = delete_repo_row(repositories, repo_id)
    /\ UNCHANGED <<clock, uuid_counter>>
    /\ Returned("delete_repository", [repo_id |-> repo_id], None)

(***************************************************************************)
(* add_version                                                             *)
(***************************************************************************)
\* the duplicate check that finds nothing
select_version_none(repo_id, version) == {}

\* SELECT id FROM versions WHERE repo_id = ? AND version = ?
select_version(repo_id, version) ==
    {v \in versions : v.repo_id = repo_id /\ v.version = version}

\* the UPDATE that only stamps last_updated
set_current_version_stamp_only(repos, repo_id, version, now) ==
    {IF r.id = repo_id THEN [r EXCEPT !.last_updated = Some(now)] ELSE r : r \in repos}

\* UPDATE repositories SET current_version = ?, last_updated = ? WHERE id = ?
set_current_version(repos, repo_id, version, now) ==
    {IF r.id = repo_id
     THEN [r EXCEPT !.current_version = Some(version), !.last_updated = Some(now)]
     ELSE r : r \in repos}

add_version(repo_id, version, release_date, description, is_breaking) ==
    LET args == [repo_id |-> repo_id, version |-> version, release_date |-> release_date,
                 description |-> description, is_breaking |-> is_breaking]
        \* "if not release_date: release_date = datetime.now().isoformat()"
        defaulted == ~truthy_text(release_date)
        stamped == IF defaulted THEN clock + 1 ELSE clock
        row == [id |-> uuid_counter, repo_id |-> repo_id, version |-> version,
                release_date |-> IF defaulted THEN Some(clock) ELSE release_date,
                description |-> description,
                is_breaking |-> IF is_breaking THEN 1 ELSE 0]
    IN  \/ /\ select_repo(repo_id) = {}
           /\ Raised("add_version", args, RepositoryNotFound)
        \/ /\ select_repo(repo_id) # {}
           /\ select_version(repo_id, version) # {}
           /\ Raised("add_version", args, VersionExists)
        \/ /\ select_repo(repo_id) # {}
           /\ select_version(repo_id, version) = {}
           /\ stamped <= MaxClock
           /\ uuid_counter <= MaxUuid
           /\ versions' = versions \cup {row}
           /\ repositories' = set_current_version(repositories, repo_id, version, stamped)
           /\ clock' = stamped + 1
           /\ uuid_counter' = uuid_counter + 1
           /\ UNCHANGED changelog_entries
           /\ Returned("add_version", args, Some(uuid_counter))

\* SELECT * FROM versions WHERE repo_id = ?
get_versions(repo_id) == {v \in versions : v.repo_id = repo_id}

(***************************************************************************)
(* The store under any sequence of calls.                                  *)
(***************************************************************************)
AddRepository ==
    /\ \E repo_id \in RepoIds, a \in RepoArgs :
          add_repository(repo_id, a[1], a[2], a[3])
    /\ UNCHANGED outer_vars

SaveChangelog ==
    /\ \E repo_id \in RepoIds, changes \in ChangeLists : save_changelog(repo_id, changes)
    /\ UNCHANGED outer_vars

AddChangelogEntry ==
    /\ \E repo_id \in RepoIds, date \in DateArgs, entry \in Entries :
          add_changelog_entry(repo_id, date, entry)
    /\ UNCHANGED outer_vars

UpdateChangelogEntry ==
    /\ \E repo_id \in RepoIds, entry_id \in EntryIds, entry \in UpdateEntries :
          update_changelog_entry(repo_id, entry_id, entry)
    /\ UNCHANGED outer_vars

DeleteRepository ==
    /\ \E repo_id \in RepoIds : delete_repository(repo_id)
    /\ UNCHANGED outer_vars

AddVersion ==
    /\ \E repo_id \in RepoIds, a \in VersionArgs :
          add_version(repo_id, a[1], a[2], None, a[3])
    /\ UNCHANGED outer_vars

Next ==
    \/ AddRepository
    \/ SaveChangelog
    \/ AddChangelogEntry
    \/ UpdateChangelogEntry
    \/ DeleteRepository
    \/ AddVersion

Spec == Init /\ [][Next]_vars

(***************************************************************************)
(* Properties.                                                             *)
(***************************************************************************)
Registered(repo_id) == \E r \in repositories : r.id = repo_id

EntryIdsStored == {e.id : e \in changelog_entries}

\* the row stored under id carries the fields of the entry dictionary
StoredAs(rows, id, repo_id, entry) ==
    \E n \in rows :
        /\ n.id = id
        /\ n.repo_id = repo_id
        /\ n.pr_number = entry.pr_number
        /\ n.pr_url = entry.pr_url
        /\ n.author = entry.author
        /\ n.date = entry.date
        /\ n.summary = entry.summary
        /\ n.details = entry.details
        /\ n.type = entry.type
        /\ read_labels(n.labels) = (IF entry.labels = None THEN <<>> ELSE entry.labels[1])

\* C1: for every repository and every non-null pr_number at most one stored
\* changelog entry carries that (repo_id, pr_number) pair.
C1_OneEntryPerPr ==
    \A e1, e2 \in changelog_entries :
        (e1.repo_id = e2.repo_id /\ e1.pr_number # None /\ e1.pr_number = e2.pr_number)
            => e1.id = e2.id

\* C2: add_changelog_entry on a registered repository, with a complete entry
\* whose non-null pr_number is that of an entry already stored for the
\* repository, returns the id of such an entry, stores the new field values
\* under that id and leaves the number of stored entries unchanged.
C2_UpsertUpdatesInPlace ==
    [][last'.op = "add_changelog_entry" =>
       \A repo_id \in {last'.args.repo_id}, date \in DateArgs, entry \in Entries :
          (/\ add_changelog_entry(repo_id, date, entry)
           /\ Registered(repo_id)
           /\ entry.date # None /\ entry.summary # None
           /\ entry.pr_number # None
           /\ \E e \in changelog_entries :
                 e.repo_id = repo_id /\ e.pr_number = entry.pr_number)
          => /\ last'.error = ""
             /\ Cardinality(changelog_entries') = Cardinality(changelog_entries)
             /\ \E e \in changelog_entries :
                   /\ e.repo_id = repo_id /\ e.pr_number = entry.pr_number
                   /\ last'.result = Some(e.id)
                   /\ StoredAs(changelog_entries', e.id, repo_id, entry)]_vars

\* C3: add_changelog_entry on a registered repository with pr_number = null
\* (and the date and summary the table requires) inserts one new row under an
\* id no stored entry has, whatever is stored, and keeps every stored row.
C3_NullPrAlwaysInserts ==
    [][last'.op = "add_changelog_entry" =>
       \A repo_id \in {last'.args.repo_id}, date \in DateArgs, entry \in Entries :
          (/\ add_changelog_entry(repo_id, date, entry)
           /\ Registered(repo_id)
           /\ entry.date # None /\ entry.summary # None
           /\ entry.pr_number = None)
          => /\ last'.error = ""
             /\ last'.result # None
             /\ last'.result[1] \notin EntryIdsStored
             /\ changelog_entries \subseteq changelog_entries'
             /\ Cardinality(changelog_entries') = Cardinality(changelog_entries) + 1
             /\ StoredAs(changelog_entries', last'.result[1], repo_id, entry)]_vars

\* two entries with the same content and a null pr_number, the second just added
C3_Witness ==
    /\ last.op = "add_changelog_entry"
    /\ last.error = ""
    /\ last.args.entry.pr_number = None
    /\ \E e1, e2 \in changelog_entries :
          /\ e1.id # e2.id
          /\ e2.id = last.result[1]
          /\ e1.pr_number = None
          /\ [e1 EXCEPT !.id = 0] = [e2 EXCEPT !.id = 0]

\* C4: add_changelog_entry with a repo_id that is not in repositories raises
\* the not-found error and leaves repositories, changelog_entries and versions
\* as they were.
C4_UnknownRepoRejected ==
    [][last'.op = "add_changelog_entry" =>
       \A repo_id \in {last'.args.repo_id}, date \in DateArgs, entry \in Entries :
          (add_changelog_entry(repo_id, date, entry) /\ ~Registered(repo_id))
          => /\ last'.error = RepositoryNotFound
             /\ repositories' = repositories
             /\ changelog_entries' = changelog_entries
             /\ versions' = versions]_vars

\* the call was rejected while other repositories and entries are stored
C4_Witness ==
    /\ last.op = "add_changelog_entry"
    /\ last.error = RepositoryNotFound
    /\ ~Registered(last.args.repo_id)
    /\ repositories # {}
    /\ changelog_entries # {}

\* C5 as stated: after delete_repository(r) no entry, no version and no row
\* of r is stored, and get_changelog(r) returns an empty collection of entries.
C5_DeleteThenEmptyChangelog ==
    last.op = "delete_repository" =>
        LET r == last.args.repo_id
        IN  /\ \A e \in changelog_entries : e.repo_id # r
            /\ \A v \in versions : v.repo_id # r
            /\ ~Registered(r)
            /\ \A res \in get_changelog(r) : res # None /\ res[1].changes = <<>>

\* C5 as amended: after delete_repository(r) no entry, no version and no row
\* of r is stored, and get_changelog(r) returns None (repository not found).
C5_DeleteThenNotFound ==
    last.op = "delete_repository" =>
        LET r == last.args.repo_id
        IN  /\ \A e \in changelog_entries : e.repo_id # r
            /\ \A v \in versions : v.repo_id # r
            /\ ~Registered(r)
            /\ get_changelog(r) = {None}

\* a repository was deleted after an entry and a version had been written,
\* and another repository is still registered
C5_Witness ==
    /\ last.op = "delete_repository"
    /\ uuid_counter > 2
    /\ changelog_entries = {}
    /\ versions = {}
    /\ repositories # {}

\* C6: after save_changelog(r, data) with complete changes, the stored
\* entries of r are exactly the changes (as many rows, change i stored with
\* its field values under its own new id) and no row r had before remains.
C6_SaveReplacesAll ==
    [][last'.op = "save_changelog" =>
       \A repo_id \in {last'.args.repo_id}, changes \in ChangeLists :
          (/\ save_changelog(repo_id, changes)
           /\ \A i \in 1..Len(changes) :
                 changes[i].date # None /\ changes[i].summary # None)
          => LET new == {e \in changelog_entries' : e.repo_id = repo_id}
             IN  /\ last'.error = ""
                 /\ Cardinality(new) = Len(changes)
                 /\ \A e \in new : e.id \notin EntryIdsStored
                 /\ \E f \in [1..Len(changes) -> {e.id : e \in new}] :
                       /\ \A i, j \in 1..Len(changes) : f[i] = f[j] => i = j
                       /\ \A i \in 1..Len(changes) :
                             StoredAs(changelog_entries', f[i], repo_id, changes[i])]_vars

\* two changes were saved over an entry stored earlier
C6_Witness ==
    /\ last.op = "save_changelog"
    /\ last.error = ""
    /\ Len(last.args.changes) = 2
    /\ {e.id : e \in {x \in changelog_entries : x.repo_id = last.args.repo_id}} = {2, 3}

\* C7: get_repositories lists exactly one row per repository id registered
\* and not deleted: add_repository adds its id to the listed ids (once) and
\* sets the listed name, delete_repository removes its id, nothing else
\* changes the listed ids.
C7_OneRowPerRepository ==
    [][LET ids == {r.id : r \in repositories}
           listing == order_by_last_updated_desc(repositories')
           listed == {listing[i].id : i \in 1..Len(listing)}
       IN  (repositories' # repositories
               \/ last'.op \in {"add_repository", "delete_repository"}) =>
           /\ Len(listing) = Cardinality(listed)
           /\ last'.op = "add_repository" =>
                 /\ listed = ids \cup {last'.args.repo_id}
                 /\ \A i \in 1..Len(listing) :
                       listing[i].id = last'.args.repo_id
                           => listing[i].name = last'.args.name
           /\ last'.op = "delete_repository" => listed = ids \ {last'.args.repo_id}
           /\ last'.op \notin {"add_repository", "delete_repository"} => listed = ids]_vars

\* a repository that carries an entry was registered again under a new name
C7_Witness ==
    /\ last.op = "add_repository"
    /\ last.args.name = "Acme Widgets"
    /\ Cardinality(repositories) = 1
    /\ \E e \in changelog_entries : e.repo_id = last.args.repo_id
    /\ \A r \in repositories : r.name = "Acme Widgets" /\ r.last_updated = Some(3)

\* C8: after add_repository(id, name, url, current_version) the row of id
\* holds exactly the name, url and current_version of the call (null when
\* omitted), whatever it held before.
C8_RegisterOverwrites ==
    [][last'.op = "add_repository" =>
       \A repo_id \in {last'.args.repo_id}, a \in RepoArgs :
          add_repository(repo_id, a[1], a[2], a[3])
          => /\ \E r \in repositories' : r.id = repo_id
             /\ \A r \in repositories' :
                   r.id = repo_id =>
                       r.name = a[1] /\ r.url = a[2] /\ r.current_version = a[3]]_vars

\* a repository with a version was registered again without current_version
C8_Witness ==
    /\ last.op = "add_repository"
    /\ last.args.current_version = None
    /\ \E v \in versions : v.repo_id = last.args.repo_id
    /\ \A r \in repositories : r.id = last.args.repo_id => r.current_version = None

\* C9: there is at most one version row per (repo_id, version), and
\* add_version(r, v) with a row (r, v) stored raises the duplicate error and
\* leaves every table, current_version included, as it was.
C9_DuplicateVersionRejected ==
    /\ [](\A v1, v2 \in versions :
             (v1.repo_id = v2.repo_id /\ v1.version = v2.version) => v1.id = v2.id)
    /\ [][last'.op = "add_version" =>
          \A repo_id \in {last'.args.repo_id}, a \in VersionArgs :
             (/\ add_version(repo_id, a[1], a[2], None, a[3])
              /\ \E v \in versions : v.repo_id = repo_id /\ v.version = a[1])
             => /\ last'.error = VersionExists
                /\ repositories' = repositories
                /\ changelog_entries' = changelog_entries
                /\ versions' = versions]_vars

\* the second add_version of "v1.0.0" was rejected and current_version is "v1.0.0"
C9_Witness ==
    /\ last.op = "add_version"
    /\ last.error = VersionExists
    /\ \E r \in repositories :
          /\ r.id = last.args.repo_id
          /\ r.current_version = Some("v1.0.0")
          /\ Cardinality({v \in versions : v.repo_id = r.id /\ v.version = "v1.0.0"}) = 1

\* C10: add_version(r, v) on an unregistered r raises the not-found error and
\* changes no table; on a registered r without a row (r, v) it adds exactly
\* one version row (r, v) and sets r's current_version to v.
C10_AddVersion ==
    [][last'.op = "add_version" =>
       \A repo_id \in {last'.args.repo_id}, a \in VersionArgs :
          add_version(repo_id, a[1], a[2], None, a[3])
          => IF ~Registered(repo_id)
             THEN /\ last'.error = RepositoryNotFound
                  /\ repositories' = repositories
                  /\ changelog_entries' = changelog_entries
                  /\ versions' = versions
             ELSE (\A v \in versions : ~(v.repo_id = repo_id /\ v.version = a[1]))
                  => /\ last'.error = ""
                     /\ versions \subseteq versions'
                     /\ Cardinality(versions') = Cardinality(versions) + 1
                     /\ \A v \in versions' \ versions :
                           v.repo_id = repo_id /\ v.version = a[1]
                     /\ \A r \in repositories' :
                           r.id = repo_id => r.current_version = Some(a[1])
                     /\ changelog_entries' = changelog_entries]_vars

\* a second version was added and became the current version
C10_Witness ==
    /\ last.op = "add_version"
    /\ last.error = ""
    /\ Cardinality({v \in versions : v.repo_id = last.args.repo_id}) = 2
    /\ \E r \in repositories :
          r.id = last.args.repo_id /\ r.current_version = Some(last.args.version)

\* C11: update_changelog_entry(r, e, fields) raises the not-found error and
\* leaves every table as it was when no entry with id e and repo_id r is
\* stored; otherwise (the fields carrying the date and summary the table
\* requires) the entry stored under e carries the given pr_number, pr_url,
\* author, date, summary, details, type and labels and still has id e and
\* repo_id r, and every other entry is as it was.
C11_UpdateById ==
    [][last'.op = "update_changelog_entry" =>
       \A repo_id \in {last'.args.repo_id}, entry_id \in EntryIds, entry \in UpdateEntries :
          update_changelog_entry(repo_id, entry_id, entry) =>
             IF \E e \in changelog_entries : e.id = entry_id /\ e.repo_id = repo_id
             THEN (entry.date # None /\ entry.summary # None) =>
                     /\ last'.error = ""
                     /\ StoredAs(changelog_entries', entry_id, repo_id, entry)
                     /\ Cardinality(changelog_entries') = Cardinality(changelog_entries)
                     /\ \A e \in changelog_entries :
                           e.id # entry_id => e \in changelog_entries'
             ELSE /\ last'.error = EntryNotFound
                  /\ repositories' = repositories
                  /\ changelog_entries' = changelog_entries
                  /\ versions' = versions]_vars

\* an entry stored without a pr_number was just given one by an update
C11_Witness ==
    /\ last.op = "update_changelog_entry"
    /\ last.error = ""
    /\ last.args.entry.pr_number = Some(1)
    /\ \E e \in changelog_entries :
          /\ e.id = last.args.entry_id
          /\ e.repo_id = last.args.repo_id
          /\ e.pr_number = Some(1)
          /\ e.author = Some("bob")

\* C12: get_changelog(r) for a registered repository returns the stored
\* entries of r, each once, and no other entry, with no entry before one of a
\* later date, and returns an empty list of changes, not an error, when r has
\* no entries.
C12_GetChangelog ==
    \A r \in RepoIds :
        Registered(r) =>
            /\ get_changelog(r) # {}
            /\ \A res \in get_changelog(r) :
                  /\ res # None
                  /\ LET ch == res[1].changes
                         stored == {e \in changelog_entries : e.repo_id = r}
                     IN  /\ Len(ch) = Cardinality(stored)
                         /\ {ch[i].id : i \in 1..Len(ch)} = {e.id : e \in stored}
                         /\ \A i \in 1..Len(ch) :
                               \E e \in stored :
                                  [ch[i] EXCEPT !.labels = e.labels] = e
                         /\ \A i, j \in 1..Len(ch) :
                               i < j => ch[i].date[1] >= ch[j].date[1]
                         /\ stored = {} => ch = <<>>

\* a registered repository holds an older entry under a smaller id than a
\* newer one, and another registered repository holds no entry
C12_Witness ==
    \E r1, r2 \in RepoIds :
        /\ Registered(r1) /\ Registered(r2)
        /\ \A e \in changelog_entries : e.repo_id # r2
        /\ \E e1, e2 \in changelog_entries :
              /\ e1.repo_id = r1 /\ e2.repo_id = r1
              /\ e1.id < e2.id
              /\ e1.date[1] < e2.date[1]

(***************************************************************************)
(* Reading a database file whose labels column another writer filled: the  *)
(* one stored entry carries any text of up to MaxLabelsText tokens, or no  *)
(* text, as its labels.                                                    *)
(***************************************************************************)
\* longest stored labels text, in tokens
MaxLabelsText == 3

\* the tokens of a stored text: brackets, comma, and a quoted string
LabelTokens == {"[", "]", ",", "ui"}

LabelTexts == UNION {[1..n -> LabelTokens] : n \in 0..MaxLabelsText}

StoredLabels == {None} \cup {Some(t) : t \in LabelTexts}

LabelsInit ==
    /\ repositories = {[id |-> "acme-widgets", name |-> "acme/widgets", url |-> None,
                        current_version |-> None, last_updated |-> Some(1)]}
    /\ \E stored \in StoredLabels :
          changelog_entries =
              {[entry_row(1, "acme-widgets", Entry(Some(1), 1)) EXCEPT !.labels = stored]}
    /\ versions = {}
    /\ clock = 2
    /\ uuid_counter = 2
    /\ last = [op |-> "init", args |-> [none |-> None], error |-> "", result |-> None]
    /\ users = {}
    /\ session = NoSession
    /\ http = NoRequest
    /\ connections = {}

GetChangelog ==
    \E repo_id \in RepoIds :
        \E res \in get_changelog(repo_id) :
            /\ Returned("get_changelog", [repo_id |-> repo_id], res)
            /\ UNCHANGED <<repositories, changelog_entries, versions, clock, uuid_counter,
                         outer_vars>>

GetChangelogEntry ==
    \E repo_id \in RepoIds, pr_number \in PrNumbers :
        \E res \in get_changelog_entry(repo_id, pr_number) :
            /\ Returned("get_changelog_entry",
                        [repo_id |-> repo_id, pr_number |-> pr_number], res)
            /\ UNCHANGED <<repositories, changelog_entries, versions, clock, uuid_counter,
                         outer_vars>>

LabelsNext ==
    \/ GetChangelog
    \/ GetChangelogEntry

LabelsSpec == LabelsInit /\ [][LabelsNext]_vars

\* the stored labels are absent, empty, or a text json.loads rejects
Undecodable(stored) ==
    stored = None \/ stored[1] = <<>> \/ json_loads(stored[1]) = None

\* C13: when the stored labels text of an entry is not valid JSON, or the
\* entry has no stored labels, get_changelog and get_changelog_entry both
\* return without an error and give that entry with labels = [].
C13_CorruptLabelsReadEmpty ==
    /\ (last.op = "get_changelog" /\ last.result # None) =>
          /\ last.error = ""
          /\ \A e \in changelog_entries :
                (e.repo_id = last.args.repo_id /\ Undecodable(e.labels)) =>
                    \E i \in 1..Len(last.result[1].changes) :
                        /\ last.result[1].changes[i].id = e.id
                        /\ last.result[1].changes[i].labels = <<>>
    /\ last.op = "get_changelog_entry" =>
          /\ last.error = ""
          /\ \A e \in changelog_entries :
                (/\ e.repo_id = last.args.repo_id
                 /\ e.pr_number = last.args.pr_number
                 /\ Undecodable(e.labels)) =>
                    /\ last.result # None
                    /\ last.result[1].id = e.id
                    /\ last.result[1].labels = <<>>

\* get_changelog_entry has returned an entry whose stored labels text opens
\* a list and never closes it
C13_Witness ==
    /\ last.op = "get_changelog_entry"
    /\ last.result # None
    /\ \A e \in changelog_entries : e.labels = Some(<<"[", "ui">>)
    /\ last.result[1].labels = <<>>

(***************************************************************************)
(* ChangelogGenerator.format_as_markdown (src/cli/changelog_generator.py). *)
(* A text is the sequence of its tokens; the markdown document is the       *)
(* sequence of its lines, blank lines left out.                             *)
(***************************************************************************)
\* longest list of changes rendered
MaxChanges == 3

\* most calls made with the same arguments
MaxRenders == 2

\* the last day on which a call is made (the first is day 1)
MaxDay == 2

\* the tokens of a date text in code-point order: a time of day, two
\* calendar dates in ISO form, the separator, and a word that is no date
TokenOrder == <<"09:30", "2024-01-10", "2024-01-11", "T", "soon">>

IsoDays == {"2024-01-10", "2024-01-11"}

\* a change dictionary: None stands for a key the dictionary does not have
MdChange(date, type, summary, pr_number, details) ==
    [date      |-> date,
     type      |-> type,
     summary   |-> summary,
     pr_number |-> pr_number,
     pr_url    |-> IF pr_number = None THEN None
                   ELSE Some("https://github.com/acme/widgets/pull/1"),
     details   |-> details]

MdChanges ==
    {MdChange(Some(<<"2024-01-10">>), Some("feature"), Some("Added dark mode"),
              Some(1), None),
     MdChange(Some(<<"2024-01-10", "T", "09:30">>), Some("feature"),
              Some("Added export to PDF"), None, Some("Uses the print stylesheet")),
     MdChange(Some(<<"2024-01-11", "T", "09:30">>), Some("bugfix"),
              Some("Fixed crash on startup"), Some(0), Some("")),
     MdChange(None, None, None, None, None),
     MdChange(Some(<<"soon">>), Some("improvement"), Some("Added dark mode"), Some(1),
              None)}

\* the changelog data format_as_markdown is given
MdData ==
    {[repo |-> "acme-widgets", changes |-> ch] :
        ch \in UNION {[1..n -> MdChanges] : n \in 0..MaxChanges}}

MdVersions == {None, Some(""), Some("v1.0.0")}

\* text.split("T")[0]
split_T(text) ==
    IF \E i \in 1..Len(text) : text[i] = "T"
    THEN LET first == CHOOSE i \in 1..Len(text) :
                          text[i] = "T" /\ \A j \in 1..(i - 1) : text[j] # "T"
         IN  SubSeq(text, 1, first - 1)
    ELSE text

\* the date text as it is, time of day included
change_date_unsplit(change) == IF change.date = None THEN <<>> ELSE change.date[1]

\* change.get("date", "").split("T")[0]
change_date(change) == split_T(IF change.date = None THEN <<>> ELSE change.date[1])

\* change.get("type", "other")
change_type(change) == IF change.type = None THEN "other" ELSE change.type[1]

code_point(token) == CHOOSE i \in 1..Len(TokenOrder) : TokenOrder[i] = token

RECURSIVE text_less(_, _)
\* a < b for two texts (Python compares strings code point by code point)
text_less(a, b) ==
    IF b = <<>> THEN FALSE
    ELSE IF a = <<>> THEN TRUE
    ELSE IF a[1] = b[1] THEN text_less(Tail(a), Tail(b))
    ELSE code_point(a[1]) < code_point(b[1])

RECURSIVE sorted_reverse(_)
\* sorted(keys, reverse=True)
sorted_reverse(keys) ==
    IF keys = {} THEN <<>>
    ELSE LET first == CHOOSE k \in keys : \A q \in keys : q = k \/ text_less(q, k)
         IN  <<first>> \o sorted_reverse(keys \ {first})

\* a line of the document
Line(kind, text) ==
    [kind |-> kind, text |-> text, date |-> <<>>, strftime |-> FALSE,
     pr_number |-> None, pr_url |-> None, on |-> 0]

\* "# {version}" if version else "# Changelog for {repo}"
title_line(changelog_data, version) ==
    IF version # None /\ version[1] # ""
    THEN Line("title", version[1])
    ELSE Line("title: Changelog for", changelog_data.repo)

\* "Generated on {datetime.now().strftime('%Y-%m-%d')}"
generated_line(today) == [Line("generated", "Generated on") EXCEPT !.on = today]

\* "## " + datetime.fromisoformat(date).strftime("%B %d, %Y"), or the date
\* text itself when fromisoformat rejects it
date_line(date) ==
    [Line("date", "##") EXCEPT !.date = date,
                               !.strftime = (Len(date) = 1 /\ date[1] \in IsoDays)]

\* change_type.capitalize()
capitalize(change_type_) ==
    CASE change_type_ = "other" -> "Other"
      [] change_type_ = "docs" -> "Docs"
      [] change_type_ = "breaking" -> "Breaking"
      [] OTHER -> change_type_

\* "### " + the header of the type
type_line(change_type_) ==
    Line("type",
         CASE change_type_ = "bugfix" -> "Bug Fixes"
           [] change_type_ = "feature" -> "New Features"
           [] change_type_ = "improvement" -> "Improvements"
           [] OTHER -> capitalize(change_type_))

\* "- {change.get('summary')}", the link " ([#{pr_number}]({pr_url}))" under
\* "if change.get('pr_number'):", and the line of the details under
\* "if change.get('details'):" (a missing key is printed as "None")
change_lines(change) ==
    LET summary == IF change.summary = None THEN "None" ELSE change.summary[1]
        bullet == IF truthy_int(change.pr_number)
                  THEN [Line("bullet", summary) EXCEPT
                            !.pr_number = change.pr_number,
                            !.pr_url = IF change.pr_url = None THEN Some("None")
                                       ELSE change.pr_url]
                  ELSE Line("bullet", summary)
    IN  IF change.details # None /\ change.details[1] # ""
        THEN <<bullet, Line("details", change.details[1])>>
        ELSE <<bullet>>

RECURSIVE bullets(_)
\* the lines of the changes of one type, in their incoming order
bullets(changes) ==
    IF changes = <<>> THEN <<>>
    ELSE change_lines(changes[1]) \o bullets(Tail(changes))

RECURSIVE keys_in_order(_)
\* the keys of a dictionary filled in this order (insertion order)
keys_in_order(seq) ==
    IF seq = <<>> THEN <<>>
    ELSE <<seq[1]>> \o keys_in_order(SelectSeq(Tail(seq), LAMBDA x : x # seq[1]))

RECURSIVE type_sections(_, _)
\* for change_type, type_changes in changes_by_type.items()
type_sections(types, date_changes) ==
    IF types = <<>> THEN <<>>
    ELSE <<type_line(types[1])>>
            \o bullets(SelectSeq(date_changes, LAMBDA c : change_type(c) = types[1]))
            \o type_sections(Tail(types), date_changes)

RECURSIVE date_sections(_, _)
\* for date in sorted_dates
date_sections(dates, changes) ==
    IF dates = <<>> THEN <<>>
    ELSE LET date_changes == SelectSeq(changes, LAMBDA c : change_date(c) = dates[1])
             types == keys_in_order([i \in 1..Len(date_changes) |->
                                        change_type(date_changes[i])])
         IN  <<date_line(dates[1])>>
                \o type_sections(types, date_changes)
                \o date_sections(Tail(dates), changes)

\* the rendering that stamps the date of the call on every date heading
format_as_markdown_stamped(changelog_data, version, today) ==
    LET changes == changelog_data.changes
        dates == {change_date(changes[i]) : i \in 1..Len(changes)}
        doc == date_sections(sorted_reverse(dates), changes)
    IN  <<title_line(changelog_data, version), generated_line(today)>>
            \o [i \in 1..Len(doc) |->
                   IF doc[i].kind = "date" THEN [doc[i] EXCEPT !.on = today] ELSE doc[i]]

\* the document for the changelog data and the version label, on the day
\* datetime.now() reads
format_as_markdown(changelog_data, version, today) ==
    LET changes == changelog_data.changes
        dates == {change_date(changes[i]) : i \in 1..Len(changes)}
    IN  <<title_line(changelog_data, version), generated_line(today)>>
            \o date_sections(sorted_reverse(dates), changes)

\* the first call of format_as_markdown; the result lists the documents of
\* the calls made with these arguments
FormatAsMarkdown ==
    \E changelog_data \in MdData, version \in MdVersions :
        /\ last.op = "init"
        /\ Returned("format_as_markdown",
                    [changelog_data |-> changelog_data, version |-> version],
                    <<format_as_markdown(changelog_data, version, clock)>>)
        /\ UNCHANGED <<repositories, changelog_entries, versions, clock, uuid_counter,
                       outer_vars>>

\* a further call with the arguments of the last one
FormatAgain ==
    /\ last.op = "format_as_markdown"
    /\ Len(last.result) < MaxRenders
    /\ Returned("format_as_markdown", last.args,
                Append(last.result,
                       format_as_markdown(last.args.changelog_data, last.args.version,
                                          clock)))
    /\ UNCHANGED <<repositories, changelog_entries, versions, clock, uuid_counter,
                   outer_vars>>

\* a day passes
DayPasses ==
    /\ clock < MaxDay
    /\ clock' = clock + 1
    /\ UNCHANGED <<repositories, changelog_entries, versions, uuid_counter, last,
                   outer_vars>>

MarkdownNext ==
    \/ FormatAsMarkdown
    \/ FormatAgain
    \/ DayPasses

MarkdownSpec == Init /\ [][MarkdownNext]_vars

\* the part of a date text before its first "T", the whole text without one
BeforeT(text) ==
    LET n == CHOOSE k \in 0..Len(text) :
                 /\ \A j \in 1..k : text[j] # "T"
                 /\ k = Len(text) \/ text[k + 1] = "T"
    IN  [i \in 1..n |-> text[i]]

LinesOfKind(doc, kind) == {i \in 1..Len(doc) : doc[i].kind = kind}

\* the last line of the kind above line i, 0 when there is none
HeadingAbove(doc, kind, i) ==
    LET above == {j \in LinesOfKind(doc, kind) : j < i}
    IN  IF above = {} THEN 0 ELSE CHOOSE j \in above : \A k \in above : k <= j

\* the date heading, the type heading and the text of a bullet
BulletPlace(doc, i) ==
    <<doc[HeadingAbove(doc, "date", i)].date,
      doc[HeadingAbove(doc, "type", i)].text,
      doc[i].text>>

\* the place an entry belongs to
EntryPlace(change) ==
    <<BeforeT(IF change.date = None THEN <<>> ELSE change.date[1]),
      type_line(change_type(change)).text,
      IF change.summary = None THEN "None" ELSE change.summary[1]>>

\* C14: in the document format_as_markdown returns every bullet stands under
\* a date heading and, below it, a type heading; the bullets under a (date
\* heading, type heading) pair are, one for one, the input entries whose date
\* part before "T" and whose type are those of the pair; no two date headings
\* show the same date part, and the date headings come in strictly
\* descending order of the date part.
C14_Grouping ==
    last.op = "format_as_markdown" =>
        \A r \in 1..Len(last.result) :
            LET doc == last.result[r]
                changes == last.args.changelog_data.changes
                bullet_lines == LinesOfKind(doc, "bullet")
                date_lines == LinesOfKind(doc, "date")
            IN  /\ Cardinality(bullet_lines) = Len(changes)
                /\ \A i \in bullet_lines :
                      /\ HeadingAbove(doc, "date", i) > 0
                      /\ HeadingAbove(doc, "type", i) > HeadingAbove(doc, "date", i)
                /\ LET places == {BulletPlace(doc, i) : i \in bullet_lines}
                   IN  \A place \in places \cup {EntryPlace(changes[k]) :
                                                    k \in 1..Len(changes)} :
                          Cardinality({i \in bullet_lines : BulletPlace(doc, i) = place})
                            = Cardinality({k \in 1..Len(changes) :
                                              EntryPlace(changes[k]) = place})
                /\ \A i, j \in date_lines : i # j => doc[i].date # doc[j].date
                /\ \A i, j \in date_lines : i < j => text_less(doc[j].date, doc[i].date)

\* three entries were rendered: the first two share a date part, one with
\* and one without a time of day, the third is of the day after; the
\* document has two date headings
C14_Witness ==
    /\ last.op = "format_as_markdown"
    /\ Len(last.args.changelog_data.changes) = 3
    /\ last.args.changelog_data.changes[1].date = Some(<<"2024-01-10">>)
    /\ last.args.changelog_data.changes[2].date = Some(<<"2024-01-10", "T", "09:30">>)
    /\ last.args.changelog_data.changes[3].date = Some(<<"2024-01-11", "T", "09:30">>)
    /\ Cardinality(LinesOfKind(last.result[1], "date")) = 2
    /\ Cardinality(LinesOfKind(last.result[1], "bullet")) = 3

SummaryEnd == 100

\* response[100:350]
DetailsEnd == 350

\* most pull requests in one batch
MaxBatch == 2

\* raise ConnectionError(f"Failed to connect to Anthropic API: ...")
ConnectionError == "ConnectionError"

Repeat(token, n) == [i \in 1..n |-> token]

\* the members a JSON object of the response may have
FieldTokens == {"summary", "details", "type"}

\* the value of a member
FieldValue(field) ==
    CASE field = "summary" -> <<"Added dark mode">>
      [] field = "details" -> <<"Adds a theme switch to the settings page">>
      [] field = "type" -> <<"feature">>

\* the part of a response around its braces: none, a complete object, objects
\* that lack fields, text in braces that is no object, and unpaired braces
ResponseCores ==
    {<<>>,
     <<"{", "summary", ",", "details", ",", "type", "}">>,
     <<"{", "summary", "}">>,
     <<"{", "}">>,
     <<"{", " ", "type", " ", "}">>,
     <<"{", "x", "}">>,
     <<"{", "summary", ",", "}">>,
     <<"{", "summary", "}", "x", "}">>,
     <<"{">>,
     <<"}", "{">>}

\* the texts the model may return
ResponseTexts ==
    {before \o core \o Repeat("x", n) :
        before \in {<<>>, <<" ">>, Repeat("x", SummaryEnd)},
        core \in ResponseCores,
        n \in {0, 2, SummaryEnd, SummaryEnd + 1, DetailsEnd + 1}}

\* text.find(token): the index of the first occurrence, -1 without one
find(text, token) ==
    LET at == {i \in 1..Len(text) : text[i] = token}
    IN  IF at = {} THEN -1 ELSE (CHOOSE i \in at : \A j \in at : i <= j) - 1

\* text.rfind(token): the index of the last occurrence, -1 without one
rfind(text, token) ==
    LET at == {i \in 1..Len(text) : text[i] = token}
    IN  IF at = {} THEN -1 ELSE (CHOOSE i \in at : \A j \in at : j <= i) - 1

\* text[from:to] for 0 <= from <= to
slice(text, from, to) ==
    LET end == IF to < Len(text) THEN to ELSE Len(text)
    IN  [i \in 1..(end - from) |-> text[from + i]]

\* text.strip()
strip(text) ==
    LET solid == {i \in 1..Len(text) : text[i] # " "}
    IN  IF solid = {} THEN <<>>
        ELSE SubSeq(text, CHOOSE i \in solid : \A j \in solid : i <= j,
                          CHOOSE i \in solid : \A j \in solid : j <= i)

\* json.loads of a text that starts with "{" and ends with "}": Some(the
\* dictionary), a missing key being None, or None for json.JSONDecodeError
json_loads_object(text) ==
    LET t == SelectSeq(text, LAMBDA c : c # " ")
        members == {i \in 2..(Len(t) - 1) : i % 2 = 0}
        commas == {i \in 2..(Len(t) - 1) : i % 2 = 1}
    IN  IF /\ Len(t) = 2 \/ Len(t) % 2 = 1
           /\ \A i \in members : t[i] \in FieldTokens
           /\ \A i \in commas : t[i] = ","
        THEN Some([field \in FieldTokens |->
                      IF \E i \in members : t[i] = field THEN Some(FieldValue(field))
                      ELSE None])
        ELSE None

\* return {"summary": response[:100].strip(), "details": "", "type": "other"}
fallback_without_json(response) ==
    [summary |-> Some(strip(slice(response, 0, SummaryEnd))),
     details |-> Some(<<>>),
     type    |-> Some(<<"other">>)]

\* except json.JSONDecodeError: summary response[:100].strip(), details
\* response[100:350].strip() if len(response) > 100 else ""
fallback_decode_error(response) ==
    [summary |-> Some(strip(slice(response, 0, SummaryEnd))),
     details |-> Some(IF Len(response) > SummaryEnd
                      THEN strip(slice(response, SummaryEnd, DetailsEnd)) ELSE <<>>),
     type    |-> Some(<<"other">>)]

\* the dictionary generate_changelog_entry returns when _make_request has
\* returned the response text
generate_changelog_entry(response) ==
    LET json_start == find(response, "{")
        json_end == rfind(response, "}") + 1
    IN  IF json_start >= 0 /\ json_end > json_start
        THEN LET result == json_loads_object(slice(response, json_start, json_end))
             IN  IF result # None THEN result[1] ELSE fallback_decode_error(response)
        ELSE fallback_without_json(response)

\* what _make_request does for one call: it returns a text, Some(text), or
\* raises ConnectionError, None
LlmOutcomes == {None} \cup {Some(text) : text \in ResponseTexts}

\* the outcomes of the calls of a batch
BatchOutcomes ==
    {None,
     Some(<<"{", "summary", ",", "details", ",", "type", "}">>),
     Some(<<"{", "type", "}">>),
     Some(<<"x", "x">>)}

\* entry.get(key, default)
get(dictionary, key, default) ==
    IF dictionary[key] = None THEN default ELSE dictionary[key][1]

\* the change generate_for_repo appends for pull request pr
change_of(pr, entry) ==
    [pr_number |-> pr,
     summary   |-> get(entry, "summary", <<>>),
     details   |-> get(entry, "details", <<>>),
     type      |-> get(entry, "type", <<"other">>)]

\* generate_for_repo on the pull requests 1..Len(outcomes), the call for pull
\* request i ending as outcomes[i] and the categorize_changes call as
\* categorize: the error it raises, "" for none, and the changes it returns
generate_for_repo(outcomes, categorize) ==
    IF outcomes = <<>> THEN [error |-> "", changes |-> <<>>]
    ELSE IF \E i \in 1..Len(outcomes) : outcomes[i] = None
    THEN [error |-> ConnectionError, changes |-> <<>>]
    ELSE IF categorize = None THEN [error |-> ConnectionError, changes |-> <<>>]
    ELSE [error |-> "",
          changes |-> [i \in 1..Len(outcomes) |->
                          change_of(i, generate_changelog_entry(outcomes[i][1]))]]

GenerateChangelogEntry ==
    \E outcome \in LlmOutcomes :
        /\ last' = [op |-> "generate_changelog_entry",
                    args |-> [response |-> outcome],
                    error |-> IF outcome = None THEN ConnectionError ELSE "",
                    result |-> IF outcome = None THEN None
                               ELSE Some(generate_changelog_entry(outcome[1]))]
        /\ UNCHANGED <<repositories, changelog_entries, versions, clock, uuid_counter,
                       outer_vars>>

GenerateForRepo ==
    \E n \in 0..MaxBatch :
        \E outcomes \in [1..n -> BatchOutcomes], categorize \in {None, Some(<<"{", "}">>)} :
            LET run == generate_for_repo(outcomes, categorize)
            IN  /\ last' = [op |-> "generate_for_repo",
                            args |-> [outcomes |-> outcomes, categorize |-> categorize],
                            error |-> run.error,
                            result |-> IF run.error = "" THEN Some(run.changes) ELSE None]
                /\ UNCHANGED <<repositories, changelog_entries, versions, clock,
                               uuid_counter, outer_vars>>

GenNext ==
    \/ GenerateChangelogEntry
    \/ GenerateForRepo

GenSpec == Init /\ [][GenNext]_vars

\* the text from the first "{" to the last "}" of the response, when the
\* response has one
Braced(response) ==
    LET open == {i \in 1..Len(response) : response[i] = "{"}
        close == {i \in 1..Len(response) : response[i] = "}"}
    IN  IF open = {} \/ close = {} THEN None
        ELSE LET first == CHOOSE i \in open : \A j \in open : i <= j
                 final == CHOOSE i \in close : \A j \in close : j <= i
             IN  IF first < final THEN Some(SubSeq(response, first, final)) ELSE None

\* no JSON object can be parsed out of the response
NoParseableJson(response) ==
    Braced(response) = None \/ json_loads_object(Braced(response)[1]) = None

\* C16: for every response text in which no parseable JSON object is found,
\* generate_changelog_entry returns, without raising, the record whose
\* summary is the first 100 characters of the text, whose details are the
\* following at most 250 characters, and whose type is "other".
C16_FallbackRecord ==
    (/\ last.op = "generate_changelog_entry"
     /\ last.args.response # None
     /\ NoParseableJson(last.args.response[1])) =>
        LET response == last.args.response[1]
        IN  /\ last.error = ""
            /\ last.result # None
            /\ last.result[1].summary
                 = Some([i \in 1..(IF Len(response) < SummaryEnd THEN Len(response)
                                   ELSE SummaryEnd) |-> response[i]])
            /\ last.result[1].details
                 = Some([i \in 1..((IF Len(response) < DetailsEnd THEN Len(response)
                                    ELSE DetailsEnd) - SummaryEnd) |->
                            response[SummaryEnd + i]])
            /\ last.result[1].type = Some(<<"other">>)

\* C17: for every text the model returns, the record generate_changelog_entry
\* returns has the three fields summary, details and type, also when the
\* text holds a JSON object that lacks some of them.
C17_ThreeFields ==
    (last.op = "generate_changelog_entry" /\ last.args.response # None) =>
        /\ last.error = ""
        /\ last.result # None
        /\ last.result[1].summary # None
        /\ last.result[1].details # None
        /\ last.result[1].type # None

\* C18: when the generation call for a pull request of the batch fails,
\* generate_for_repo still returns, and the returned changes are those of the
\* pull requests whose call did not fail, in their order.
C18_FailedPrSkipped ==
    last.op = "generate_for_repo" =>
        LET outcomes == last.args.outcomes
            done == {i \in 1..Len(outcomes) : outcomes[i] # None}
        IN  (last.args.categorize # None) =>
               /\ last.error = ""
               /\ last.result # None
               /\ {last.result[1][k].pr_number : k \in 1..Len(last.result[1])} = done
               /\ Len(last.result[1]) = Cardinality(done)
               /\ \A j, k \in 1..Len(last.result[1]) :
                     j < k => last.result[1][j].pr_number < last.result[1][k].pr_number

(***************************************************************************)
(* The web application (src/web/app.py): the OAuth callback, logout, and   *)
(* the four endpoints that write to the store.  Every request is one        *)
(* action; http holds the request and the answer to it.                     *)
(***************************************************************************)
\* the account GitHub reports in the callback
GithubUser ==
    [github_id |-> "1001", login |-> "alice", email |-> Some("alice@example.com"),
     avatar_url |-> None]

\* token['access_token']
GithubToken == "gho_a"

\* how far the callback gets: authorize_access_token raises; it returns no
\* token; the user request is answered with another status than 200; saving
\* the user raises; the callback runs to its end
CallbackOutcomes ==
    {"authorize raises", "no token", "user request fails", "saving raises", "ok"}

\* the JSON bodies of POST /api/repos: with id and name, and without name
RepoPayloads ==
    {[id |-> Some(repo_id), name |-> Some("acme/widgets"), url |-> None] :
        repo_id \in RepoIds}
        \cup {[id |-> Some("acme-widgets"), name |-> None, url |-> None]}

\* the JSON bodies of POST /api/repos/<repo_id>/entries: a complete entry, an
\* entry without summary, an entry without date, and a body without date and
\* entry
EntryPayloads ==
    {[date |-> Some(9), entry |-> Some(Entry(Some(1), 2))],
     [date |-> Some(9), entry |-> Some(Entry(None, 3))],
     [date |-> Some(9), entry |-> Some(Entry(Some(1), 4))],
     [date |-> None, entry |-> None]}

\* the JSON bodies of PUT /api/repos/<repo_id>/entries/<entry_id>
UpdatePayloads == {Entry(None, 1)}

\* SELECT id FROM users WHERE github_id = ?
select_user(github_id) == {u \in users : u.github_id = github_id}

\* the users table when the UPDATE sets created_at as well
create_or_update_user_recreated(github_id, username, email, avatar_url, access_token, now) ==
    (users \ select_user(github_id))
        \cup {[id |-> IF select_user(github_id) = {} THEN Cardinality(users) + 1
                      ELSE (CHOOSE u \in select_user(github_id) : TRUE).id,
                github_id |-> github_id, username |-> username, email |-> email,
                avatar_url |-> avatar_url, access_token |-> access_token,
                created_at |-> now, last_login |-> Some(now)]}

\* the users table after create_or_update_user: the UPDATE of the row with
\* the github_id, or the INSERT of a new row under the next id
create_or_update_user(github_id, username, email, avatar_url, access_token, now) ==
    IF select_user(github_id) # {}
    THEN {IF u.github_id = github_id
          THEN [u EXCEPT !.username = username, !.email = email,
                         !.avatar_url = avatar_url, !.access_token = access_token,
                         !.last_login = Some(now)]
          ELSE u : u \in users}
    ELSE users \cup {[id |-> Cardinality(users) + 1, github_id |-> github_id,
                      username |-> username, email |-> email,
                      avatar_url |-> avatar_url, access_token |-> access_token,
                      created_at |-> now, last_login |-> Some(now)]}

\* the check that lets every request through
auth_required_open(s) == TRUE

\* auth_required runs the endpoint when 'access_token' is in the session
auth_required(s) == s.access_token # None

\* the answer to a request
Answer(route, repo_id, entry_id, status, error) ==
    /\ http' = [route |-> route, repo_id |-> repo_id, entry_id |-> entry_id,
                status |-> status, json |-> TRUE, error |-> error, location |-> "",
                exception |-> ""]
    /\ UNCHANGED connections

\* an exception no handler catches: Flask answers 500 with an HTML page
Unhandled(route, repo_id, entry_id, exception) ==
    /\ http' = [route |-> route, repo_id |-> repo_id, entry_id |-> entry_id,
                status |-> 500, json |-> FALSE, error |-> "", location |-> "",
                exception |-> exception]
    /\ UNCHANGED connections

\* return redirect(location)
Redirect(route, location) ==
    /\ http' = [route |-> route, repo_id |-> None, entry_id |-> None, status |-> 302,
                json |-> FALSE, error |-> "", location |-> location, exception |-> ""]
    /\ UNCHANGED connections

\* return jsonify({"error": "Authentication required"}), 401
Unauthorized(route, repo_id, entry_id) ==
    /\ Answer(route, repo_id, entry_id, 401, "Authentication required")
    /\ UNCHANGED <<repositories, changelog_entries, versions, clock, uuid_counter,
                   last, users, session>>

\* GET /api/auth/callback
authorized ==
    \E outcome \in CallbackOutcomes :
        LET route == "GET /api/auth/callback"
        IN  \/ /\ outcome = "authorize raises"
               /\ Redirect(route, "/login?error=server_error")
               /\ UNCHANGED <<repositories, changelog_entries, versions, clock,
                              uuid_counter, last, users, session>>
            \/ /\ outcome = "no token"
               /\ Redirect(route, "/login?error=access_denied")
               /\ UNCHANGED <<repositories, changelog_entries, versions, clock,
                              uuid_counter, last, users, session>>
            \/ /\ outcome = "user request fails"
               /\ session' = [session EXCEPT !.access_token = Some(GithubToken)]
               /\ Redirect(route, "/login?error=github_api_error")
               /\ UNCHANGED <<repositories, changelog_entries, versions, clock,
                              uuid_counter, last, users>>
            \/ /\ outcome = "saving raises"
               /\ session' = [session EXCEPT !.access_token = Some(GithubToken)]
               /\ Redirect(route, "/login?error=server_error")
               /\ UNCHANGED <<repositories, changelog_entries, versions, clock,
                              uuid_counter, last, users>>
            \/ /\ outcome = "ok"
               /\ clock <= MaxClock
               /\ users' = create_or_update_user(GithubUser.github_id, GithubUser.login,
                                                 GithubUser.email, GithubUser.avatar_url,
                                                 Some(GithubToken), clock)
               /\ session' = [access_token |-> Some(GithubToken),
                              user_id |-> Some((CHOOSE u \in users' :
                                                   u.github_id = GithubUser.github_id).id)]
               /\ clock' = clock + 1
               /\ Redirect(route, "/")
               /\ UNCHANGED <<repositories, changelog_entries, versions, uuid_counter,
                              last>>

\* GET /api/auth/logout
logout ==
    /\ session' = NoSession
    /\ Answer("GET /api/auth/logout", None, None, 200, "")
    /\ UNCHANGED <<repositories, changelog_entries, versions, clock, uuid_counter,
                   last, users>>

\* POST /api/repos
add_repo ==
    \E data \in RepoPayloads :
        LET route == "POST /api/repos"
        IN  IF ~auth_required(session) THEN Unauthorized(route, data.id, None)
            ELSE IF data.id = None \/ data.name = None
            THEN /\ Answer(route, data.id, None, 400, "Invalid repository data")
                 /\ UNCHANGED <<repositories, changelog_entries, versions, clock,
                                uuid_counter, last, users, session>>
            ELSE /\ add_repository(data.id[1], data.name[1], data.url, None)
                 /\ Answer(route, data.id, None, 200, "")
                 /\ UNCHANGED <<users, session>>

\* DELETE /api/repos/<repo_id>
delete_repo ==
    \E repo_id \in RepoIds :
        LET route == "DELETE /api/repos/<repo_id>"
        IN  IF ~auth_required(session) THEN Unauthorized(route, Some(repo_id), None)
            ELSE /\ delete_repository(repo_id)
                 /\ Answer(route, Some(repo_id), None, 200, "")
                 /\ UNCHANGED <<users, session>>

\* POST /api/repos/<repo_id>/entries
add_entry ==
    \E repo_id \in RepoIds, data \in EntryPayloads :
        LET route == "POST /api/repos/<repo_id>/entries"
            repos == get_repositories
        IN  IF ~auth_required(session) THEN Unauthorized(route, Some(repo_id), None)
            ELSE IF data.date = None \/ data.entry = None
            THEN /\ Answer(route, Some(repo_id), None, 400, "Invalid entry data")
                 /\ UNCHANGED <<repositories, changelog_entries, versions, clock,
                                uuid_counter, last, users, session>>
            ELSE IF ~\E i \in 1..Len(repos) : repos[i].id = repo_id
            THEN /\ Answer(route, Some(repo_id), None, 404, "Repository not found")
                 /\ UNCHANGED <<repositories, changelog_entries, versions, clock,
                                uuid_counter, last, users, session>>
            ELSE /\ add_changelog_entry(repo_id, data.date[1], data.entry[1])
                 /\ IF last'.error = ""
                    THEN Answer(route, Some(repo_id), None, 200, "")
                    ELSE Unhandled(route, Some(repo_id), None, last'.error)
                 /\ UNCHANGED <<users, session>>

\* PUT /api/repos/<repo_id>/entries/<entry_id>
update_changelog ==
    \E repo_id \in RepoIds, entry_id \in EntryIds, data \in UpdatePayloads :
        LET route == "PUT /api/repos/<repo_id>/entries/<entry_id>"
        IN  IF ~auth_required(session)
            THEN Unauthorized(route, Some(repo_id), Some(entry_id))
            ELSE /\ update_changelog_entry(repo_id, entry_id, data)
                 /\ IF last'.error = ""
                    THEN Answer(route, Some(repo_id), Some(entry_id), 200, "")
                    ELSE Unhandled(route, Some(repo_id), Some(entry_id), last'.error)
                 /\ UNCHANGED <<users, session>>

WebNext ==
    \/ authorized
    \/ logout
    \/ add_repo
    \/ delete_repo
    \/ add_entry
    \/ update_changelog

WebSpec == Init /\ [][WebNext]_vars

\* the endpoints that write to the store
WriteRoutes ==
    {"POST /api/repos", "DELETE /api/repos/<repo_id>",
     "POST /api/repos/<repo_id>/entries",
     "PUT /api/repos/<repo_id>/entries/<entry_id>"}

store == <<repositories, changelog_entries, versions, users>>

\* C19 as stated: a request to a write endpoint is answered 401 and leaves
\* the store unchanged when the session holds no access_token, and is
\* answered 401 as long as no login has succeeded in the session since it
\* began or since the last logout (the session holds no user_id).
C19_RejectedUntilLogin ==
    [][http'.route \in WriteRoutes =>
          /\ session.access_token = None => (http'.status = 401 /\ store' = store)
          /\ session.user_id = None => http'.status = 401]_vars

\* C19 as amended: a request to a write endpoint is answered 401 and leaves
\* the store and the session unchanged when the session holds no
\* access_token; logout empties the session; the session gets an
\* access_token only in a callback in which GitHub issued one, and from then
\* on write requests are not answered 401, whether or not the callback went
\* on to its end.
C19_RejectedWithoutToken ==
    [][/\ (http'.route \in WriteRoutes /\ session.access_token = None) =>
             /\ http'.status = 401
             /\ http'.error = "Authentication required"
             /\ store' = store
             /\ session' = session
       /\ (http'.route \in WriteRoutes /\ session.access_token # None) =>
             http'.status # 401
       /\ http'.route = "GET /api/auth/logout" => session' = NoSession
       /\ (session.access_token = None /\ session'.access_token # None) =>
             /\ http'.route = "GET /api/auth/callback"
             /\ http'.location # "/login?error=access_denied"]_vars

\* a user had logged in and a repository was written, the user logged out,
\* and a write request was then answered 401
C19_Witness ==
    /\ http.route \in WriteRoutes
    /\ http.status = 401
    /\ session = NoSession
    /\ users # {}
    /\ repositories # {}

\* C20: an authenticated entry-add request that names an unknown repository,
\* and an authenticated entry-update request that names an entry id no entry
\* of the repository has, is answered with a 4xx status and a JSON error
\* body, leaves the store unchanged, and raises no unhandled exception.
C20_UnknownTargetIs4xx ==
    [][(/\ session.access_token # None
        /\ \/ /\ http'.route = "POST /api/repos/<repo_id>/entries"
              /\ ~Registered(http'.repo_id[1])
           \/ /\ http'.route = "PUT /api/repos/<repo_id>/entries/<entry_id>"
              /\ ~\E e \in changelog_entries :
                     e.id = http'.entry_id[1] /\ e.repo_id = http'.repo_id[1])
       => /\ http'.status \in 400..499
          /\ http'.json
          /\ http'.error # ""
          /\ http'.exception = ""
          /\ store' = store]_vars

(***************************************************************************)
(* The user registry: create_or_update_user, get_user_by_id and            *)
(* get_user_by_github_id of ChangelogStorage, and the session endpoints of *)
(* the web application that use them.                                       *)
(***************************************************************************)
GithubIds == {"1001", "1002"}

\* (username, email, avatar_url, access_token) of a create_or_update_user call
UserProfiles ==
    {<<"alice", Some("alice@example.com"), None, Some("gho_a")>>,
     <<"alice-renamed", None, Some("https://avatars.example/1"), Some("gho_b")>>,
     <<"alice", Some("alice@example.com"), None, None>>}

\* the ids get_user_by_id is asked for: those of the users and one more
UserIds == 1..(Cardinality(GithubIds) + 1)

CreateOrUpdateUser ==
    \E github_id \in GithubIds, a \in UserProfiles :
        /\ clock <= MaxClock
        /\ users' = create_or_update_user(github_id, a[1], a[2], a[3], a[4], clock)
        /\ clock' = clock + 1
        /\ Returned("create_or_update_user",
                    [github_id |-> github_id, username |-> a[1], email |-> a[2],
                     avatar_url |-> a[3], access_token |-> a[4]],
                    Some((CHOOSE u \in users' : u.github_id = github_id).id))
        /\ UNCHANGED <<repositories, changelog_entries, versions, uuid_counter, session,
                       http, connections>>

\* SELECT * FROM users WHERE id = ?, returned as dict(user), or None
get_user_by_id(user_id) ==
    LET found == {u \in users : u.id = user_id}
    IN  IF found = {} THEN None ELSE Some(CHOOSE u \in found : TRUE)

\* SELECT * FROM users WHERE github_id = ?, returned as dict(user), or None
get_user_by_github_id(github_id) ==
    LET found == select_user(github_id)
    IN  IF found = {} THEN None ELSE Some(CHOOSE u \in found : TRUE)

GetUserById ==
    \E user_id \in UserIds :
        /\ Returned("get_user_by_id", [user_id |-> user_id], get_user_by_id(user_id))
        /\ UNCHANGED <<repositories, changelog_entries, versions, clock, uuid_counter,
                       outer_vars>>

GetUserByGithubId ==
    \E github_id \in GithubIds :
        /\ Returned("get_user_by_github_id", [github_id |-> github_id],
                    get_user_by_github_id(github_id))
        /\ UNCHANGED <<repositories, changelog_entries, versions, clock, uuid_counter,
                       outer_vars>>

\* GET /api/auth/user: the JSON body of the answer
get_user ==
    LET route == "GET /api/auth/user"
        user == IF session.user_id = None THEN None ELSE get_user_by_id(session.user_id[1])
        body == IF session.access_token = None \/ session.user_id = None
                THEN [authenticated |-> FALSE]
                ELSE IF user = None
                THEN [authenticated |-> FALSE, error |-> "User not found"]
                ELSE [authenticated |-> TRUE, user_id |-> session.user_id[1],
                      username |-> user[1].username, email |-> user[1].email,
                      avatar_url |-> user[1].avatar_url]
    IN  /\ Returned(route, [session |-> session], Some(body))
        /\ Answer(route, None, None, 200, "")
        /\ UNCHANGED <<repositories, changelog_entries, versions, clock, uuid_counter,
                       users, session>>

UserNext ==
    \/ CreateOrUpdateUser
    \/ GetUserById
    \/ GetUserByGithubId
    \/ authorized
    \/ logout
    \/ get_user

UserSpec == Init /\ [][UserNext]_vars

\* the operations that return a user to their caller
UserReads == {"get_user_by_id", "get_user_by_github_id", "GET /api/auth/user"}

\* C21: the value returned by get_user_by_id, by get_user_by_github_id and by
\* the /api/auth/user endpoint carries no access_token of a stored user.
C21_NoTokenReturned ==
    (last.op \in UserReads /\ last.result # None) =>
        \/ "access_token" \notin DOMAIN last.result[1]
        \/ last.result[1].access_token = None

(***************************************************************************)
(* Properties of the store as a whole.                                     *)
(***************************************************************************)
\* the operations that write the changelog of the repository they name
TargetedWrites ==
    {"add_changelog_entry", "save_changelog", "update_changelog_entry", "add_version",
     "delete_repository"}

\* the rows of the three tables that belong to other repositories than r
RowsOfOthers(repos, entries, vs, r) ==
    <<{x \in repos : x.id # r}, {e \in entries : e.repo_id # r},
      {v \in vs : v.repo_id # r}>>

\* C22: add_changelog_entry, save_changelog, update_changelog_entry,
\* add_version and delete_repository on repository r leave the repository
\* rows, entries and versions of every other repository as they were, and
\* delete_repository on an id that is not registered raises no error and
\* changes no table.
C22_OtherRepositoriesUntouched ==
    [][last'.op \in TargetedWrites =>
          LET r == last'.args.repo_id
          IN  /\ RowsOfOthers(repositories', changelog_entries', versions', r)
                    = RowsOfOthers(repositories, changelog_entries, versions, r)
              /\ (last'.op = "delete_repository" /\ ~Registered(r)) =>
                    /\ last'.error = ""
                    /\ tables' = tables]_vars

\* the writes of a changelog that return
ChangelogWrites ==
    {"add_changelog_entry", "save_changelog", "update_changelog_entry", "add_version"}

\* C23: a successful add_changelog_entry, save_changelog,
\* update_changelog_entry or add_version on a registered repository r sets
\* r's last_updated to a time the clock showed during the call, later than
\* every last_updated stored before; get_repositories lists the rows in
\* descending order of last_updated, so r is its first row.
C23_LastWrittenListedFirst ==
    [][(/\ last'.op \in ChangelogWrites
        /\ last'.error = ""
        /\ Registered(last'.args.repo_id)) =>
          LET r == last'.args.repo_id
              listing == order_by_last_updated_desc(repositories')
          IN  /\ \A row \in repositories' :
                    row.id = r =>
                        /\ row.last_updated # None
                        /\ row.last_updated[1] >= clock
                        /\ row.last_updated[1] < clock'
                        /\ \A old \in repositories : old.last_updated[1] < row.last_updated[1]
              /\ Len(listing) = Cardinality(repositories)
              /\ \A i, j \in 1..Len(listing) :
                    i < j => listing[i].last_updated[1] > listing[j].last_updated[1]
              /\ listing[1].id = r]_vars

\* two repositories are registered; the one registered first was written
\* last and is listed first
C23_Witness ==
    /\ last.op \in ChangelogWrites
    /\ last.error = ""
    /\ Len(get_repositories) = 2
    /\ get_repositories[1].id = last.args.repo_id
    /\ get_repositories[1].last_updated = Some(3)
    /\ get_repositories[2].last_updated = Some(2)

(***************************************************************************)
(* Connections and transactions.  Every operation opens its connection     *)
(* with sqlite3.connect; sqlite3 begins a transaction before the first     *)
(* writing statement, conn.commit() makes the statements visible to other  *)
(* connections, and a connection that is dropped without a commit rolls    *)
(* its transaction back.  save_changelog is taken statement by statement,  *)
(* get_changelog reading on a connection of its own in between; the other  *)
(* operations are one step each, from connect to return or raise.          *)
(***************************************************************************)
\* an open connection: the operation that opened it, the statement it runs
\* next, the rows it has inserted, the tables as the connection sees them,
\* and whether the operation has ended with an exception
Connection(op, repo_id, changes, next, inserted, repos, entries, raised) ==
    [op |-> op, repo_id |-> repo_id, changes |-> changes, next |-> next,
     inserted |-> inserted, repositories |-> repos, changelog_entries |-> entries,
     raised |-> raised]

\* what other connections see if every statement is committed as it is run
autocommitted(stored, view) == view

\* what other connections see after a statement of a transaction that is
\* still open: the tables as last committed
uncommitted(stored, view) == stored

\* the connection an operation that has ended leaves open: conn.close() runs
\* before the return and before the operation raises its own ValueError; an
\* exception raised by a statement leaves the function before conn.close()
left_open(op, repo_id, error) ==
    IF error = IntegrityError
    THEN {Connection(op, repo_id, <<>>, "commit", 0, repositories, changelog_entries, TRUE)}
    ELSE {}

\* conn = sqlite3.connect(self.db_path) of save_changelog
SaveConnect ==
    \E repo_id \in RepoIds, changes \in ChangeLists :
        /\ connections = {}
        /\ clock <= MaxClock
        /\ uuid_counter + Len(changes) <= MaxUuid + 1
        /\ connections' = {Connection("save_changelog", repo_id, changes, "update", 0,
                                      repositories, changelog_entries, FALSE)}
        /\ UNCHANGED <<repositories, changelog_entries, versions, clock, uuid_counter,
                       last, web_vars>>

\* the next cursor.execute of save_changelog: the UPDATE of last_updated, the
\* DELETE of the old entries, or the INSERT of the next change, which raises
\* when the change lacks a date or a summary
SaveStatement ==
    \E c \in connections :
        /\ c.op = "save_changelog"
        /\ ~c.raised
        /\ c.next \in {"update", "delete", "insert"}
        /\ LET change == c.changes[c.inserted + 1]
               rejected == c.next = "insert" /\ ~entry_not_null_ok(change)
               after ==
                   IF c.next = "update"
                   THEN [c EXCEPT !.repositories = touch_repo(@, c.repo_id, clock),
                                  !.next = "delete"]
                   ELSE IF c.next = "delete"
                   THEN [c EXCEPT !.changelog_entries = delete_entries_of(@, c.repo_id),
                                  !.next = IF c.changes = <<>> THEN "commit" ELSE "insert"]
                   ELSE IF rejected THEN [c EXCEPT !.raised = TRUE]
                   ELSE [c EXCEPT !.changelog_entries =
                                      @ \cup {entry_row(uuid_counter, c.repo_id, change)},
                                  !.inserted = @ + 1,
                                  !.next = IF c.inserted + 1 = Len(c.changes)
                                           THEN "commit" ELSE "insert"]
               seen == uncommitted(<<repositories, changelog_entries>>,
                                   <<after.repositories, after.changelog_entries>>)
           IN  /\ connections' = (connections \ {c}) \cup {after}
               /\ repositories' = seen[1]
               /\ changelog_entries' = seen[2]
               /\ clock' = IF c.next = "update" THEN clock + 1 ELSE clock
               /\ uuid_counter' = IF c.next = "insert" /\ ~rejected THEN uuid_counter + 1
                                  ELSE uuid_counter
               /\ last' = IF rejected
                          THEN [op |-> "save_changelog", args |-> [repo_id |-> c.repo_id],
                                error |-> IntegrityError, result |-> None]
                          ELSE last
        /\ UNCHANGED <<versions, web_vars>>

\* conn.commit() and conn.close() of save_changelog
SaveCommit ==
    \E c \in connections :
        /\ c.op = "save_changelog"
        /\ ~c.raised
        /\ c.next = "commit"
        /\ repositories' = c.repositories
        /\ changelog_entries' = c.changelog_entries
        /\ connections' = connections \ {c}
        /\ Returned("save_changelog", [repo_id |-> c.repo_id, changes |-> c.changes], None)
        /\ UNCHANGED <<versions, clock, uuid_counter, web_vars>>

\* the connection object of an operation that raised is deallocated: sqlite3
\* closes it and its transaction is rolled back
Collect ==
    \E c \in connections :
        /\ c.raised
        /\ connections' = connections \ {c}
        /\ UNCHANGED <<repositories, changelog_entries, versions, clock, uuid_counter,
                       last, web_vars>>

AddRepositoryCall ==
    /\ connections = {}
    /\ \E repo_id \in RepoIds, a \in RepoArgs : add_repository(repo_id, a[1], a[2], a[3])
    /\ connections' = left_open(last'.op, last'.args.repo_id, last'.error)
    /\ UNCHANGED web_vars

AddChangelogEntryCall ==
    /\ connections = {}
    /\ \E repo_id \in RepoIds, date \in DateArgs, entry \in Entries :
          add_changelog_entry(repo_id, date, entry)
    /\ connections' = left_open(last'.op, last'.args.repo_id, last'.error)
    /\ UNCHANGED web_vars

AddVersionCall ==
    /\ connections = {}
    /\ \E repo_id \in RepoIds, a \in VersionArgs :
          add_version(repo_id, a[1], a[2], None, a[3])
    /\ connections' = left_open(last'.op, last'.args.repo_id, last'.error)
    /\ UNCHANGED web_vars

UpdateChangelogEntryCall ==
    /\ connections = {}
    /\ \E repo_id \in RepoIds, entry_id \in EntryIds, entry \in UpdateEntries :
          update_changelog_entry(repo_id, entry_id, entry)
    /\ connections' = left_open(last'.op, last'.args.repo_id, last'.error)
    /\ UNCHANGED web_vars

DeleteRepositoryCall ==
    /\ connections = {}
    /\ \E repo_id \in RepoIds : delete_repository(repo_id)
    /\ connections' = left_open(last'.op, last'.args.repo_id, last'.error)
    /\ UNCHANGED web_vars

ConnNext ==
    \/ AddRepositoryCall
    \/ AddChangelogEntryCall
    \/ UpdateChangelogEntryCall
    \/ DeleteRepositoryCall
    \/ AddVersionCall
    \/ SaveConnect
    \/ SaveStatement
    \/ SaveCommit
    \/ Collect

ConnSpec == Init /\ [][ConnNext]_vars

\* save_changelog with a get_changelog on another connection at any moment
TxNext ==
    \/ AddRepositoryCall
    \/ SaveConnect
    \/ SaveStatement
    \/ SaveCommit
    \/ Collect
    \/ GetChangelog

TxSpec == Init /\ [][TxNext]_vars

\* C24: while save_changelog(r, changes) runs on its connection, every step
\* leaves the committed tables, which are what a get_changelog on another
\* connection reads, as they were, except the one commit, after which the
\* entries of r are exactly the new ones, one per change and none of the old,
\* and r's last_updated is stamped; a save_changelog whose INSERT is rejected
\* never commits, so the old entries stay stored.
C24_SaveIsOneTransaction ==
    [][\A c \in connections :
          c.op = "save_changelog" =>
             \/ /\ repositories' = repositories
                /\ changelog_entries' = changelog_entries
             \/ /\ ~c.raised
                /\ c.next = "commit"
                /\ \A i \in 1..Len(c.changes) :
                      c.changes[i].date # None /\ c.changes[i].summary # None
                /\ last'.op = "save_changelog" /\ last'.error = ""
                /\ connections' = {}
                /\ LET new == {e \in changelog_entries' : e.repo_id = c.repo_id}
                   IN  /\ Cardinality(new) = Len(c.changes)
                       /\ new \cap changelog_entries = {}
                       /\ \E f \in [1..Len(c.changes) -> {e.id : e \in new}] :
                             /\ \A i, j \in 1..Len(c.changes) : f[i] = f[j] => i = j
                             /\ \A i \in 1..Len(c.changes) :
                                   StoredAs(new, f[i], c.repo_id, c.changes[i])
                       /\ {e \in changelog_entries' : e.repo_id # c.repo_id}
                            = {e \in changelog_entries : e.repo_id # c.repo_id}]_vars

\* get_changelog has just returned the one old entry of a repository whose
\* save_changelog, on its own connection, has deleted it and inserted the
\* first of two new entries
C24_Witness ==
    /\ last.op = "get_changelog"
    /\ last.result # None
    /\ Len(last.result[1].changes) = 1
    /\ \E c \in connections :
          /\ c.op = "save_changelog"
          /\ c.repo_id = last.args.repo_id
          /\ c.next = "insert"
          /\ c.inserted = 1
          /\ \A e \in c.changelog_entries : e.id # last.result[1].changes[1].id

\* C25: no connection is open whose operation has ended, whether the
\* operation returned, raised its own not-found or duplicate error, or was
\* left by the exception of a rejected statement.
C25_ConnectionsReleased ==
    \A c \in connections : ~c.raised

(***************************************************************************)
(* The headings, links and detail lines of format_as_markdown.             *)
(***************************************************************************)
\* the heading a type is to be shown under
TypeHeading(type) ==
    CASE type = "feature" -> "New Features"
      [] type = "bugfix" -> "Bug Fixes"
      [] type = "improvement" -> "Improvements"
      [] type = "other" -> "Other"
      [] type = "docs" -> "Docs"
      [] type = "breaking" -> "Breaking"

\* the date part and the type heading an entry belongs under
EntryGroup(change) ==
    <<BeforeT(IF change.date = None THEN <<>> ELSE change.date[1]),
      TypeHeading(IF change.type = None THEN "other" ELSE change.type[1])>>

\* the date and the type heading a line stands under
LineGroup(doc, i) ==
    <<doc[HeadingAbove(doc, "date", i)].date, doc[HeadingAbove(doc, "type", i)].text>>

\* the n-th smallest number of a set
Nth(S, n) == CHOOSE x \in S : Cardinality({y \in S : y < x}) = n - 1

\* C26: the first line of the document is the version when a version is
\* given and "Changelog for" the repository otherwise; the bullets under a
\* (date, type heading) pair, the heading being New Features, Bug Fixes,
\* Improvements or the capitalized type name, are the entries of that date
\* part and type in their input order; a bullet carries the link to
\* pr_number and pr_url exactly when the entry has a pr_number, and is
\* followed by a line with the details exactly when details is non-empty.
C26_HeadingsLinksDetails ==
    last.op = "format_as_markdown" =>
        \A r \in 1..Len(last.result) :
            LET doc == last.result[r]
                changes == last.args.changelog_data.changes
                version == last.args.version
                given == version # None /\ version[1] # ""
            IN  /\ doc[1].kind = (IF given THEN "title" ELSE "title: Changelog for")
                /\ doc[1].text = (IF given THEN version[1]
                                  ELSE last.args.changelog_data.repo)
                /\ \A g \in {EntryGroup(changes[k]) : k \in 1..Len(changes)} :
                      LET es == {k \in 1..Len(changes) : EntryGroup(changes[k]) = g}
                          bs == {i \in LinesOfKind(doc, "bullet") : LineGroup(doc, i) = g}
                      IN  /\ Cardinality(bs) = Cardinality(es)
                          /\ \A n \in 1..Cardinality(es) :
                                LET change == changes[Nth(es, n)]
                                    i == Nth(bs, n)
                                    detailed == change.details # None
                                                    /\ change.details[1] # ""
                                IN  /\ doc[i].text = (IF change.summary = None THEN "None"
                                                      ELSE change.summary[1])
                                    /\ (doc[i].pr_number # None) = (change.pr_number # None)
                                    /\ doc[i].pr_number = change.pr_number
                                    /\ doc[i].pr_url = change.pr_url
                                    /\ (i < Len(doc) /\ doc[i + 1].kind = "details")
                                         = detailed
                                    /\ detailed => doc[i + 1].text = change.details[1]

\* C27: the users table holds one row per github_id and per id; a
\* create_or_update_user call returns the id of the row of its github_id,
\* which is the id the row had if it was stored before, sets the row's
\* username, email, avatar_url and access_token to those of the call and its
\* last_login to the time of the call, leaves its created_at as it was (the
\* time of the call for a new row), and leaves every other row as it was.
C27_OneRowPerGithubId ==
    [][/\ \A u1, u2 \in users' :
             (u1.github_id = u2.github_id \/ u1.id = u2.id) => u1 = u2
       /\ CreateOrUpdateUser =>
             LET a == last'.args
             IN  /\ \E u \in users' :
                       /\ u.github_id = a.github_id
                       /\ last'.result = Some(u.id)
                       /\ u.username = a.username
                       /\ u.email = a.email
                       /\ u.avatar_url = a.avatar_url
                       /\ u.access_token = a.access_token
                       /\ u.last_login = Some(clock)
                       /\ \A old \in users :
                             old.github_id = a.github_id =>
                                 u.id = old.id /\ u.created_at = old.created_at
                       /\ (\A old \in users : old.github_id # a.github_id) =>
                             u.created_at = clock
                 /\ \A old \in users : old.github_id # a.github_id => old \in users'
                 /\ Cardinality(users')
                      = Cardinality({u.github_id : u \in users} \cup {a.github_id})]_vars

\* two users are stored and the one created first has just logged in again
\* under a new name
C27_Witness ==
    /\ last.op = "create_or_update_user"
    /\ Cardinality(users) = 2
    /\ \E u \in users :
          /\ u.github_id = last.args.github_id
          /\ u.username = "alice-renamed"
          /\ u.created_at = 1
          /\ u.last_login = Some(3)

\* C28: every stored changelog entry and every stored version carries the id
\* of a row of the repositories table, whatever operations were called, a
\* save_changelog for an id that is not registered included.
C28_NoOrphanRows ==
    /\ \A e \in changelog_entries : \E r \in repositories : r.id = e.repo_id
    /\ \A v \in versions : \E r \in repositories : r.id = v.repo_id

(***************************************************************************)
(* The date argument of add_changelog_entry: the store called with dates   *)
(* that are and are not the date of the entry.                              *)
(***************************************************************************)
\* the date arguments tried: one no entry carries and one some entries carry
EntryDateArgs == DateArgs \cup {Entry(None, 2).date[1]}

AddChangelogEntryDated ==
    /\ \E repo_id \in RepoIds, date \in EntryDateArgs, entry \in Entries :
          add_changelog_entry(repo_id, date, entry)
    /\ UNCHANGED outer_vars

DateNext ==
    \/ AddRepository
    \/ AddChangelogEntryDated

DateSpec == Init /\ [][DateNext]_vars

LabelLists == {<<>>, <<"ui">>, <<"ui", "enhancement">>}

\* entry.get("labels"): None for an entry without the key
LabelValues == {None} \cup {Some(L) : L \in LabelLists}

\* complete entries without a pr_number, one for each labels value
LabelledUpdates == {[Entry(None, 1) EXCEPT !.labels = labels] : labels \in LabelValues}

\* complete entries with a pr_number, one for each labels value
LabelledEntries == {[Entry(Some(1), 1) EXCEPT !.labels = labels] : labels \in LabelValues}

\* the changes save_changelog is given: one entry, or two with different
\* labels
LabelledChangeLists ==
    {<<entry>> : entry \in LabelledUpdates}
        \cup {<<[Entry(Some(1), 1) EXCEPT !.labels = Some(<<"ui", "enhancement">>)],
                [Entry(None, 1) EXCEPT !.labels = Some(<<>>)]>>}

AddChangelogEntryLabelled ==
    /\ \E repo_id \in RepoIds, date \in DateArgs, entry \in LabelledEntries :
          add_changelog_entry(repo_id, date, entry)
    /\ UNCHANGED outer_vars

SaveChangelogLabelled ==
    /\ \E repo_id \in RepoIds, changes \in LabelledChangeLists :
          save_changelog(repo_id, changes)
    /\ UNCHANGED outer_vars

UpdateChangelogEntryLabelled ==
    /\ \E repo_id \in RepoIds, entry_id \in EntryIds, entry \in LabelledUpdates :
          update_changelog_entry(repo_id, entry_id, entry)
    /\ UNCHANGED outer_vars

AddRepositoryNamed ==
    /\ \E repo_id \in RepoIds : add_repository(repo_id, "acme/widgets", None, None)
    /\ UNCHANGED outer_vars

RoundTripNext ==
    \/ AddRepositoryNamed
    \/ AddChangelogEntryLabelled
    \/ SaveChangelogLabelled
    \/ UpdateChangelogEntryLabelled
    \/ GetChangelog

RoundTripSpec == Init /\ [][RoundTripNext]_vars

\* the list an entry dictionary carries: [] when it has no labels key
LabelsOf(entry) == IF entry.labels = None THEN <<>> ELSE entry.labels[1]

\* every value get_changelog and get_changelog_entry may now return for the
\* entry gives it the labels L; get_changelog does return the entry when the
\* repository is registered, and get_changelog_entry can return it when the
\* row has a pr_number; the stored column is null exactly when L is empty
ReadsBack(repo_id, id, L) ==
    /\ \A res \in get_changelog(repo_id) :
          /\ Registered(repo_id) => res # None
          /\ res # None =>
                /\ \E i \in 1..Len(res[1].changes) : res[1].changes[i].id = id
                /\ \A i \in 1..Len(res[1].changes) :
                      res[1].changes[i].id = id => res[1].changes[i].labels = L
    /\ \A e \in changelog_entries :
          (e.id = id /\ e.repo_id = repo_id) =>
              /\ (L = <<>>) <=> (e.labels = None)
              /\ \A res \in get_changelog_entry(repo_id, e.pr_number) :
                    (res # None /\ res[1].id = id) => res[1].labels = L
              /\ e.pr_number # None =>
                    \E res \in get_changelog_entry(repo_id, e.pr_number) :
                        res # None /\ res[1].id = id /\ res[1].labels = L

\* C30: for every list of strings L written with an entry by
\* add_changelog_entry, save_changelog or update_changelog_entry, reading the
\* entry back with get_changelog or get_changelog_entry returns labels equal
\* to L in the same order; an empty or missing list is stored as null and
\* reads back as [].
C30_LabelsRoundTrip ==
    [][/\ (last'.op \in {"add_changelog_entry", "update_changelog_entry"}
               /\ last'.error = "") =>
            \A repo_id \in {last'.args.repo_id}, entry \in {last'.args.entry},
               id \in {IF last'.op = "add_changelog_entry" THEN last'.result[1]
                                                            ELSE last'.args.entry_id} :
                ReadsBack(repo_id, id, LabelsOf(entry))'
       /\ (last'.op = "save_changelog" /\ last'.error = "") =>
            \A repo_id \in {last'.args.repo_id}, changes \in {last'.args.changes},
               first_uuid \in {uuid_counter} :
                \A i \in 1..Len(changes) :
                    ReadsBack(repo_id, first_uuid + i - 1, LabelsOf(changes[i]))']_vars

\* get_changelog has returned, in this order, the two labels an earlier
\* write gave the entry
C30_Witness ==
    /\ last.op = "get_changelog"
    /\ last.result # None
    /\ \E i \in 1..Len(last.result[1].changes) :
          last.result[1].changes[i].labels = <<"ui", "enhancement">>


====
